---- MODULE Spec2Model ----
(***************************************************************************)
(* State-machine model of the DENTIST workflow engine                      *)
(* (src/src/dentist/workflow/engine): the Workflow orchestrator            *)
(* (collect_job, execute_jobs, __finalize_queue), the executors            *)
(* (AbstractExecutor, LocalExecutor serial and thread-pool paths,          *)
(* DetachedExecutor submit and poll loop), the Job state machine and the   *)
(* status-file protocol of tracked actions.                                *)
(***************************************************************************)
EXTENDS Integers, Sequences, FiniteSets, TLC

\* ------------------------------------------------------------------ bounds
\* number of job objects the user program may create
NJobs == 3
\* largest modification time the file system clock reaches
MaxTime == 3
\* largest `threads` value of the workflow configuration
MaxThreads == 2
\* largest exit code a tracked job's process writes to its status file
MaxExit == 2
\* most jobs the user program queues before it flushes
MaxQueue == 2
\* number of grouped_jobs scopes the user program opens
MaxGroups == 1
\* number of grouped_jobs scopes the user program opens inside another scope
MaxInner == 1
\* most acquire_dir / acquire_file calls the user program makes
MaxCalls == 3
\* most components of a path that a Workdir call is asked for
MaxDepth == 3
\* most items of one list passed to FileList, and the deepest nesting of lists
MaxItems == 2
MaxNest == 2

\* float("-inf") / float("inf") of check_up_to_date and _check_outputs
NegInf == -1
PosInf == MaxTime + 1

JobIds == 1..NJobs
Files == {"in", "x", "y", "z"}
States == {"WAITING", "DONE", "FAILED"}

VARIABLES
  cfg,          \* Workflow configuration flags (immutable after __init__)
  jobdef,       \* the Job objects: name, exec_local, inputs, outputs, threads, action kind
  exists,       \* file system: the set of existing paths
  mtime,        \* file system: st_mtime of each existing path (0 when absent)
  clock,        \* file system time
  jobs,         \* Workflow.jobs: the registry, in the iteration order of the dict
  job_queue,    \* Workflow.job_queue
  state,        \* Job.state
  exit_code,    \* Job.exit_code
  pc,           \* position of the orchestrator thread
  exc,          \* the exception that left execute_jobs / collect_job, if any
  hist,         \* history: flush counter, dispatch and start records, files written
  ex,           \* the running executor call: its jobs and loop variables
  par,          \* LocalExecutor._run_parallel: the closure variables and pool
  det,          \* DetachedExecutor: status files, job processes, poll loop
  chk,          \* arguments and result of a direct call of one function
  grp,          \* grouped_jobs: _collect_group, _group_job_batches, the batch loop
  wf,           \* the definition that run() executes, the position in it, the run
  wd            \* Workdir: the shared _registry, the Workdir objects, the directory tree

vars == <<cfg, jobdef, exists, mtime, clock, jobs, job_queue, state, exit_code,
          pc, exc, hist, ex, par, det, chk, grp, wf, wd>>

\* ------------------------------------------------------------ small helpers
SetMax(S, lo) == IF S = {} THEN lo ELSE CHOOSE m \in S : \A n \in S : n <= m

SetMin(S, hi) == IF S = {} THEN hi ELSE CHOOSE m \in S : \A n \in S : m <= n

Range(s) == {s[i] : i \in 1..Len(s)}

RECURSIVE SumSeq(_)
SumSeq(s) == IF Len(s) = 0 THEN 0 ELSE Head(s) + SumSeq(Tail(s))

\* ------------------------------------------------------------- file checks
\* Path.stat().st_mtime of an output, float("-inf") for a missing one
OutputMtime(ex_set, mt, o) == IF o \in ex_set THEN mt[o] ELSE NegInf

\* Workflow.check_up_to_date: "ok" when it returns, else the error it raises.
\* input.stat() on a missing input raises FileNotFoundError.
CheckUpToDateAnyOutput(ex_set, mt, inputs, outputs) ==
  IF \E i \in inputs : i \notin ex_set THEN "FileNotFoundError"
  ELSE LET input_mtime == SetMax({mt[i] : i \in inputs} \cup {NegInf}, NegInf)
           output_mtime == SetMin({mt[o] : o \in outputs \cap ex_set}
                                  \cup {PosInf}, PosInf)
       IN IF outputs # {} /\ outputs \cap ex_set = {} THEN "missing outputs"
          ELSE IF input_mtime > output_mtime THEN "inputs are newer than outputs"
          ELSE "ok"

CheckUpToDateStrict(ex_set, mt, inputs, outputs) ==
  IF \E i \in inputs : i \notin ex_set THEN "FileNotFoundError"
  ELSE LET input_mtime == SetMax({mt[i] : i \in inputs} \cup {NegInf}, NegInf)
           output_mtime == SetMin({OutputMtime(ex_set, mt, o) : o \in outputs}
                                  \cup {PosInf}, PosInf)
       IN IF output_mtime = NegInf THEN "missing outputs"
          ELSE IF input_mtime >= output_mtime THEN "inputs are newer than outputs"
          ELSE "ok"

check_up_to_date(ex_set, mt, inputs, outputs) ==
  IF \E i \in inputs : i \notin ex_set THEN "FileNotFoundError"
  ELSE LET input_mtime == SetMax({mt[i] : i \in inputs} \cup {NegInf}, NegInf)
           output_mtime == SetMin({OutputMtime(ex_set, mt, o) : o \in outputs}
                                  \cup {PosInf}, PosInf)
       IN IF output_mtime = NegInf THEN "missing outputs"
          ELSE IF input_mtime > output_mtime THEN "inputs are newer than outputs"
          ELSE "ok"

CheckOutputsStrict(ex_set, mt, inputs, outputs) ==
  LET input_mtime == SetMax({mt[i] : i \in inputs} \cup {NegInf}, NegInf)
  IN {o \in outputs : o \notin ex_set \/ mt[o] <= input_mtime}

\* Workflow._check_outputs: the missing or out-dated outputs
check_outputs(ex_set, mt, inputs, outputs) ==
  LET input_mtime == SetMax({mt[i] : i \in inputs} \cup {NegInf}, NegInf)
  IN {o \in outputs : o \notin ex_set \/ mt[o] < input_mtime}

\* a whole call of Workflow._check_outputs: input.stat() raises
\* FileNotFoundError for a missing input before any output is looked at
check_outputs_call(ex_set, mt, inputs, outputs) ==
  IF \E i \in inputs : i \notin ex_set
  THEN [called |-> TRUE, raised |-> TRUE, files |-> {}]
  ELSE [called |-> TRUE, raised |-> FALSE,
        files |-> check_outputs(ex_set, mt, inputs, outputs)]

CheckInputsNone(ex_set, inputs) == {}

\* Workflow.check_inputs: the missing inputs (MissingInputs when non-empty)
check_inputs(ex_set, inputs) == {i \in inputs : i \notin ex_set}

\* util.discard_files: every path is removed
discard_files(ex_set, files) == ex_set \ files

\* mtime of the paths removed from the file system is forgotten
Forget(mt, ex_set) == [f \in Files |-> IF f \in ex_set THEN mt[f] ELSE 0]

\* a process writes the paths W at the current time
Written(mt, W, now) == [f \in Files |-> IF f \in W THEN now ELSE mt[f]]

\* ------------------------------------------------------------------- jobs
Kinds == {"PythonCode", "ShellScript"}
Executors == {"LocalExecutor", "DetachedExecutor"}

\* AbstractAction.local_only: an in-process callable cannot be rendered to a
\* command, a shell script can
local_only(kind) == kind = "PythonCode"

\* Job.__init__: the Job objects the user program may pass to collect_job
\* (a local-only action with exec_local unset is rejected with ValueError, so
\* no such Job exists).  Job 1 makes x from in, job 2 makes y from x, every
\* other job makes z from nothing; n3 is the name of job 3 (it may repeat job
\* 1's name), k1 and k2 are the action types of jobs 1 and 2, loc2 the
\* exec_local flag of job 2 and t3 the thread count that the resources give
\* job 3.  Jobs 1 and 2 are exec_local exactly when they must be.  index is
\* <<>> for index=None and <<i>> for the integer index i.
JobDef(n3, k1, k2, loc2, t3) ==
  [j \in JobIds |->
     [name       |-> IF j = 3 THEN n3 ELSE j,
      exec_local |-> IF j = 1 THEN local_only(k1)
                     ELSE IF j = 2 THEN (local_only(k2) \/ loc2) ELSE TRUE,
      inputs     |-> IF j = 1 THEN {"in"} ELSE IF j = 2 THEN {"x"} ELSE {},
      outputs    |-> IF j = 1 THEN {"x"} ELSE IF j = 2 THEN {"y"} ELSE {"z"},
      index      |-> <<>>,
      threads    |-> IF j = 3 THEN t3 ELSE 1,
      kind       |-> IF j = 1 THEN k1 ELSE IF j = 2 THEN k2 ELSE "PythonCode"]]

NoExc == [kind |-> "none", source |-> "none", jobs |-> {}, total |-> 0]

Raise(kind, source, js) ==
  [kind |-> kind, source |-> source, jobs |-> js, total |-> 0]

\* JobBatchFailed(job_failures, total_jobs), DetachedJobsFailed(jobs, total_jobs)
RaiseBatch(kind, source, js, total) ==
  [kind |-> kind, source |-> source, jobs |-> js, total |-> total]

ExIdle == [executor |-> "none", jobs |-> <<>>, ret |-> "none", i |-> 0,
           final |-> FALSE]

ParIdle == [job_queue |-> <<>>, available_threads |-> 0, errors |-> <<>>,
            pass |-> <<>>, i |-> 0, at |-> "idle", loaded |-> 0,
            submitted_jobs |-> {}, inflight |-> {},
            result |-> [j \in JobIds |-> "none"],
            cb |-> [j \in JobIds |-> "none"],
            cb_loaded |-> [j \in JobIds |-> 0]]

NoFile == [exists |-> FALSE, content |-> <<>>]

DetIdle == [tracking |-> {}, status_file |-> [j \in JobIds |-> NoFile],
            proc |-> [j \in JobIds |-> "none"],
            code |-> [j \in JobIds |-> 0],
            num_finished |-> 0, i |-> 0, submits |-> 0]

ChkIdle == [inputs |-> {}, outputs |-> {}, result |-> "none"]

\* outer: the temp_intermediates arguments of the enclosing grouped_jobs
\* scopes that are still open (locals of their generators; the group name,
\* the conditions and the batches are attributes of the workflow)
GrpIdle == [scope |-> FALSE, collect_group |-> FALSE, batches |-> <<>>,
            temp_intermediates |-> FALSE, running |-> FALSE, k |-> 0,
            entered |-> 0, outer |-> <<>>]

\* Workflow.definition: not given (the model draws the calls of the user
\* program one by one), or the sequence of the calls it makes; ip is the next
\* call, run counts the calls of the workflow on the same files, first is
\* the history of the first run during the second
WfIdle == [given |-> FALSE, definition |-> <<>>, ip |-> 1, run |-> 1,
           first |-> <<>>]

Call(op, arg) == [op |-> op, arg |-> arg]

\* the user program is about to make this call
at_call(w, op, arg) ==
  ~w.given \/ (w.ip <= Len(w.definition) /\ w.definition[w.ip] = Call(op, arg))

called(w) == IF w.given THEN [w EXCEPT !.ip = @ + 1] ELSE w

\* the definition has returned
at_end(w) == ~w.given \/ w.ip > Len(w.definition)

\* no Workdir call has been made
NoAcquire == [op |-> "none", ok |-> FALSE, again |-> FALSE, exist_ok |-> FALSE,
              changed |-> FALSE]

WdIdle == [absolute |-> TRUE, dirs |-> {<<>>}, files |-> {}, registry |-> {},
           workdirs |-> {}, returned |-> {}, acquired |-> {},
           exclusive |-> {}, twice |-> {}, calls |-> 0, last |-> NoAcquire]

HistInit == [flush_no |-> 0,
             collected |-> {},
             dispatched |-> [j \in JobIds |-> 0],
             started |-> [j \in JobIds |-> 0],
             wrote |-> [j \in JobIds |-> {}],
             finished_calls |-> [j \in JobIds |-> 0],
             late_call |-> FALSE,
             returned |-> 0,
             skipped |-> {},
             queued |-> {},
             deleted |-> <<>>,
             stopped |-> "none",
             ready_sweeps |-> 0,
             cleaned |-> {}]

\* the file systems a workflow run may start from: the input is there or not,
\* the intermediate and final files are missing, old or recent
InitialFiles(ex_set, mt) ==
  /\ ex_set \in SUBSET Files
  /\ mt \in [Files -> 0..2]
  /\ \A f \in Files : (f \in ex_set) <=> (mt[f] > 0)
  /\ mt["in"] = 2
  /\ mt["x"] # 1
  /\ mt["z"] # 2

\* Workflow.__init__
Init ==
  /\ cfg \in [dry_run : BOOLEAN, print_commands : BOOLEAN, force : BOOLEAN,
              threads : 1..MaxThreads, executor : Executors,
              keep_temp : {FALSE}, force_delete_temp : {FALSE},
              delete_outputs : {FALSE}]
  \* outside a dry run print_commands only prints: it is drawn for dry runs;
  \* keep_temp and force_delete_temp are only read at the exit of a group
  /\ cfg.print_commands => cfg.dry_run
  /\ jobdef \in {JobDef(n3, k1, k2, loc2, t3) :
                   n3 \in {1, 3}, k1 \in Kinds, k2 \in Kinds, loc2 \in BOOLEAN,
                   t3 \in 1..MaxThreads}
  /\ InitialFiles(exists, mtime)
  /\ clock = 2
  /\ jobs = <<>>
  /\ job_queue = <<>>
  /\ state = [j \in JobIds |-> "WAITING"]
  /\ exit_code = [j \in JobIds |-> -1]
  /\ pc = "run"
  /\ exc = NoExc
  /\ hist = HistInit
  /\ ex = ExIdle
  /\ par = ParIdle
  /\ det = DetIdle
  /\ chk = ChkIdle
  /\ grp = GrpIdle
  /\ wf = WfIdle
  /\ wd = WdIdle

\* Workflow.status_tracking / local_status_tracking: requires_status_tracking
\* of the executor the job is routed to (local_executor is the LocalExecutor)
status_tracking(c, jd) == ~jd.exec_local /\ c.executor = "DetachedExecutor"

\* ------------------------------------------------------------- collect_job
\* Workflow.__collect_job, the queueing decision: the queue after the call
CollectQueueNever(q, j, force, post_check) ==
  IF ~post_check THEN Append(q, j) ELSE q

CollectQueue(q, j, force, post_check) ==
  IF force \/ ~post_check THEN Append(q, j) ELSE q

\* Workflow.jobs is a dict name -> Job, or name -> dict index -> Job for
\* indexed jobs; `jobs` lists its Job objects in the order in which the dicts
\* iterate (the entries of one name are adjacent)
registry_names(reg) == {reg[i].name : i \in 1..Len(reg)}

registry_lookup(reg, name, index) ==
  {reg[i].job : i \in {k \in 1..Len(reg) : reg[k].name = name /\ reg[k].index = index}}

\* __collect_job, `if job_id not in jobs_db`: "ok", or the error raised.  An
\* indexed job whose name holds a Job (not a dict) makes `in` raise TypeError
RegisterAlways(reg, jd) == "ok"

register_check(reg, jd) ==
  IF jd.index = <<>>
  THEN IF jd.name \in registry_names(reg) THEN "DuplicateJob" ELSE "ok"
  ELSE IF registry_lookup(reg, jd.name, <<>>) # {} THEN "TypeError"
  ELSE IF registry_lookup(reg, jd.name, jd.index) # {} THEN "DuplicateJob"
  ELSE "ok"

\* __collect_job, `jobs_db[job_id] = job`: a new name goes to the end of the
\* registry, a new index to the end of the dict of its name
register(reg, jd, j) ==
  LET e == [name |-> jd.name, index |-> jd.index, job |-> j]
      same == {i \in 1..Len(reg) : reg[i].name = jd.name}
      last == SetMax(same, Len(reg))
  IN SubSeq(reg, 1, last) \o <<e>> \o SubSeq(reg, last + 1, Len(reg))

\* Workflow.collect_job for the Job object j: inside a collecting group the
\* job is appended without any check, else it is checked and queued if stale
collect_job(j) ==
  /\ pc = "run"
  /\ at_call(wf, "collect_job", j)
  /\ wf' = called(wf)
  /\ \A k \in hist.collected : k < j
  /\ Len(job_queue) < MaxQueue
  /\ LET jd == jobdef[j]
         missing_inputs == check_inputs(exists, jd.inputs)
         post_check == check_up_to_date(exists, mtime, jd.inputs, jd.outputs) = "ok"
         checked == register_check(jobs, jd)
     IN IF ~grp.collect_group /\ missing_inputs # {}
        THEN \* check_pre_conditions raises MissingInputs
             /\ exc' = Raise("MissingInputs", "collect_job", {j})
             /\ pc' = "raised"
             /\ UNCHANGED <<job_queue, jobs, det>>
        ELSE /\ job_queue' = IF grp.collect_group THEN Append(job_queue, j)
                             ELSE CollectQueue(job_queue, j, cfg.force, post_check)
             /\ IF checked # "ok"
                THEN /\ exc' = Raise(checked, "collect_job", {j})
                     /\ pc' = "raised"
                     /\ UNCHANGED <<jobs, det>>
                ELSE /\ jobs' = register(jobs, jd, j)
                     /\ det' = IF status_tracking(cfg, jd)
                               THEN [det EXCEPT !.tracking = @ \cup {j}]
                               ELSE det
                     /\ UNCHANGED <<pc, exc>>
  /\ hist' = [hist EXCEPT !.collected = @ \cup {j},
                          !.queued = IF ~grp.collect_group /\ job_queue' # job_queue
                                     THEN @ \cup {j} ELSE @]
  /\ UNCHANGED <<wd, cfg, jobdef, exists, mtime, clock, state, exit_code, ex, par,
                 chk, grp>>

\* ---------------------------------------------------------------- Job state
is_finished(st, j) == st[j] # "WAITING"

\* AbstractAction.clean_up_tracking_status_file: unlink the status file of a
\* tracked job if it exists
CleanUpNothing(d, j) == d

clean_up_tracking_status_file(d, j) ==
  IF j \in d.tracking /\ d.status_file[j].exists
  THEN [d EXCEPT !.status_file[j] = NoFile]
  ELSE d

\* what a call of Job.done / Job.failed adds to the history
Called(h, st, j) ==
  [h EXCEPT !.finished_calls[j] = @ + 1,
            !.late_call = @ \/ is_finished(st, j)]

\* ------------------------------------------------ LocalExecutor._execute_job
\* One run of job j, which ends at the time `now`: the action writes the
\* outputs W and then returns (ok) or raises.  The result is the returned
\* job ("job"), the JobFailed that is returned or raised, or the other
\* exception that leaves the call.
\*  - force: the outputs are unlinked first;
\*  - a callable action (PythonCode) is invoked; an exception becomes
\*    failed(1) and JobFailed;
\*  - otherwise job.to_command() is evaluated for subprocess.run, and
\*    Job.to_command raises NotImplementedError: no process is started and
\*    the job stays WAITING.
\*  - job.done() on a finished job fails its assertion inside the try block,
\*    the handler's job.failed(1) fails it again: AssertionError.
execute_job(j, W, ok, now) ==
  LET jd == jobdef[j]
      ex0 == IF cfg.force THEN exists \ jd.outputs ELSE exists
      mt0 == Forget(mtime, ex0)
      base == [exists |-> ex0, mtime |-> mt0, state |-> state,
               exit_code |-> exit_code, det |-> det, hist |-> hist,
               result |-> "NotImplementedError"]
      h1 == [hist EXCEPT !.started[j] = hist.flush_no, !.wrote[j] = W]
  IN IF jd.kind = "PythonCode"
     THEN LET ran == [base EXCEPT !.exists = ex0 \cup W,
                                  !.mtime = Written(mt0, W, now)]
          IN IF is_finished(state, j)
             THEN [ran EXCEPT !.result = "AssertionError",
                              !.hist = Called(h1, state, j)]
             ELSE IF ok
             THEN [ran EXCEPT !.state = [state EXCEPT ![j] = "DONE"],
                              !.exit_code = [exit_code EXCEPT ![j] = 0],
                              !.det = clean_up_tracking_status_file(det, j),
                              !.hist = Called(h1, state, j),
                              !.result = "job"]
             ELSE [ran EXCEPT !.state = [state EXCEPT ![j] = "FAILED"],
                              !.exit_code = [exit_code EXCEPT ![j] = 1],
                              !.det = clean_up_tracking_status_file(det, j),
                              !.hist = Called(h1, state, j),
                              !.result = "JobFailed"]
     ELSE [base EXCEPT !.hist = [hist EXCEPT !.started[j] = hist.flush_no]]

\* the writes an action may make: any of the job's outputs
ActionWrites(j) == SUBSET jobdef[j].outputs

\* ------------------------------------------------------------ execute_jobs
local_jobs == SelectSeq(job_queue, LAMBDA j : jobdef[j].exec_local)

normal_jobs == SelectSeq(job_queue, LAMBDA j : ~jobdef[j].exec_local)

\* __finalize_queue in a collecting group: the queue becomes one more batch
CollectBatchMerged(batches, q) ==
  IF batches = <<>> THEN <<q>> ELSE <<batches[1] \o q>>

collect_batch(batches, q) == Append(batches, q)

\* Workflow.execute_jobs up to the try block of __finalize_queue; inside a
\* collecting group __finalize_queue moves the queue to the group's batches
execute_jobs(final) ==
  /\ pc = "run"
  /\ IF final THEN at_end(wf) /\ ~grp.scope /\ wf' = wf
     ELSE at_call(wf, "execute_jobs", 0) /\ wf' = called(wf)
  /\ IF Len(job_queue) = 0
     THEN \* nothing to flush: the call only shows when it is the final one or
          \* a call of the given definition
          /\ final \/ wf.given
          /\ pc' = IF final /\ ~grp.collect_group THEN "finished" ELSE "run"
          /\ UNCHANGED <<job_queue, ex, hist, grp>>
     ELSE IF grp.collect_group
     THEN /\ grp' = [grp EXCEPT !.batches = collect_batch(@, job_queue)]
          /\ job_queue' = <<>>
          /\ UNCHANGED <<pc, ex, hist>>
     ELSE /\ pc' = "call_executor"
          /\ ex' = [ExIdle EXCEPT !.final = final]
          /\ hist' = [hist EXCEPT !.flush_no = @ + 1]
          /\ UNCHANGED <<job_queue, grp>>
  /\ UNCHANGED <<wd, cfg, jobdef, exists, mtime, clock, jobs, state,
                 exit_code, exc, par, det, chk>>

\* __finalize_queue, except JobFailed: the failing job's outputs are discarded
\* and the exception is raised again
JobFailedKeepsOutputs(ex_set, j) == ex_set

except_JobFailed(ex_set, j) == discard_files(ex_set, jobdef[j].outputs)

\* the first job of the batch that needs more threads than there are, or 0
NoneTooWide(batch, threads) == 0

RECURSIVE FirstTooWide(_, _)
FirstTooWide(batch, threads) ==
  IF batch = <<>> THEN 0
  ELSE IF jobdef[Head(batch)].threads > threads THEN Head(batch)
  ELSE FirstTooWide(Tail(batch), threads)

\* LocalExecutor._run_jobs: the serial path is taken ...
runs_serial(threads, n) == threads = 1 /\ n <= 1

\* AbstractExecutor._dry_run: the jobs that are marked done
dry_run_done(batch, print_commands) ==
  IF print_commands THEN Range(batch) ELSE {}

\* AbstractExecutor.__call__ on a batch, as __finalize_queue calls it
\* (dry_run, force, print_commands and threads passed by keyword), up to the
\* point where the executor's own loop starts
executor_call(batch, executor, ret) ==
  LET h1 == [hist EXCEPT !.dispatched =
               [j \in JobIds |-> IF j \in Range(batch) THEN hist.flush_no
                                 ELSE hist.dispatched[j]]]
      marked == dry_run_done(batch, cfg.print_commands)
      late == {j \in marked : is_finished(state, j)}
      wide == FirstTooWide(batch, cfg.threads)
  IN IF cfg.dry_run
     THEN \* _dry_run: job.done() for every job when print_commands
          /\ state' = [j \in JobIds |-> IF j \in marked \ late THEN "DONE"
                                         ELSE state[j]]
          /\ exit_code' = [j \in JobIds |-> IF j \in marked \ late THEN 0
                                             ELSE exit_code[j]]
          /\ hist' = [h1 EXCEPT !.finished_calls =
                        [j \in JobIds |-> IF j \in marked THEN @[j] + 1 ELSE @[j]],
                                !.late_call = @ \/ late # {}]
          /\ IF late # {}
             THEN /\ pc' = "raised"
                  /\ exc' = Raise("AssertionError", "execute_jobs", late)
             ELSE /\ pc' = ret
                  /\ UNCHANGED exc
          /\ UNCHANGED <<exists, mtime, ex, par, det>>
     ELSE IF executor = "DetachedExecutor"
     THEN \* DetachedExecutor._run_jobs takes no `force`: TypeError
          /\ pc' = "raised"
          /\ exc' = Raise("TypeError", "execute_jobs", {})
          /\ hist' = h1
          /\ UNCHANGED <<exists, mtime, state, exit_code, ex, par, det>>
     ELSE IF runs_serial(cfg.threads, Len(batch))
     THEN /\ pc' = "serial"
          /\ ex' = [ex EXCEPT !.executor = executor, !.jobs = batch,
                              !.ret = ret, !.i = 1]
          /\ hist' = h1
          /\ UNCHANGED <<exists, mtime, state, exit_code, exc, par, det>>
     ELSE IF wide # 0
     THEN \* _run_parallel: raise JobFailed(job, "insuffient number of threads")
          /\ pc' = "raised"
          /\ exc' = Raise("JobFailed", "execute_jobs", {wide})
          /\ exists' = except_JobFailed(exists, wide)
          /\ mtime' = Forget(mtime, exists')
          /\ hist' = h1
          /\ UNCHANGED <<state, exit_code, ex, par, det>>
     ELSE /\ pc' = "parallel"
          /\ ex' = [ex EXCEPT !.executor = executor, !.jobs = batch,
                              !.ret = ret, !.i = 0]
          /\ par' = [ParIdle EXCEPT !.job_queue = batch,
                                    !.available_threads = cfg.threads,
                                    !.pass = batch, !.i = 1, !.at = "for"]
          /\ hist' = h1
          /\ UNCHANGED <<exists, mtime, state, exit_code, exc, det>>

\* __finalize_queue: self.executor(normal_jobs, ...) if there are any
call_executor ==
  /\ pc = "call_executor"
  /\ IF Len(normal_jobs) > 0
     THEN executor_call(normal_jobs, cfg.executor, "call_local_executor")
     ELSE /\ pc' = "call_local_executor"
          /\ UNCHANGED <<exists, mtime, state, exit_code, exc, hist, ex, par, det>>
  /\ UNCHANGED <<wd, cfg, jobdef, clock, jobs, job_queue, chk, grp, wf>>

\* __finalize_queue: self.local_executor(local_jobs, ...) if there are any
call_local_executor ==
  /\ pc = "call_local_executor"
  /\ IF Len(local_jobs) > 0
     THEN executor_call(local_jobs, "LocalExecutor", "check")
     ELSE /\ pc' = "check"
          /\ UNCHANGED <<exists, mtime, state, exit_code, exc, hist, ex, par, det>>
  /\ UNCHANGED <<wd, cfg, jobdef, clock, jobs, job_queue, chk, grp, wf>>

\* LocalExecutor._run_serial: the next job of the batch; a JobFailed is
\* caught by __finalize_queue, any other exception leaves execute_jobs as is
run_serial ==
  /\ pc = "serial"
  /\ \E W \in ActionWrites(ex.jobs[ex.i]), ok \in BOOLEAN, now \in clock..MaxTime :
       LET j == ex.jobs[ex.i]
           r == execute_job(j, W, ok, now)
       IN /\ clock' = now
          /\ state' = r.state
          /\ exit_code' = r.exit_code
          /\ det' = r.det
          /\ hist' = r.hist
          /\ IF r.result = "job"
             THEN /\ exists' = r.exists
                  /\ mtime' = r.mtime
                  /\ ex' = [ex EXCEPT !.i = @ + 1]
                  /\ pc' = IF ex.i = Len(ex.jobs) THEN ex.ret ELSE "serial"
                  /\ UNCHANGED exc
             ELSE IF r.result = "JobFailed"
             THEN /\ exists' = except_JobFailed(r.exists, j)
                  /\ mtime' = Forget(r.mtime, exists')
                  /\ exc' = Raise("JobFailed", "execute_jobs", {j})
                  /\ pc' = "raised"
                  /\ UNCHANGED ex
             ELSE /\ exists' = r.exists
                  /\ mtime' = r.mtime
                  /\ exc' = Raise(r.result, "execute_jobs", {j})
                  /\ pc' = "raised"
                  /\ UNCHANGED ex
  /\ UNCHANGED <<wd, cfg, jobdef, jobs, job_queue, par, chk, grp, wf>>

\* ----------------------------------------------- LocalExecutor._run_parallel
\* The admission loop runs on the orchestrator thread; job_finished_cb runs on
\* the worker thread that completed the future.  Both update the closure
\* variable available_threads with a read followed by a write
\* (available_threads -= ..., available_threads += ...), with no lock.

\* `for job in job_queue: if job.threads <= available_threads`
admit_test ==
  /\ pc = "parallel"
  /\ par.at = "for"
  /\ par.i <= Len(par.pass)
  /\ par' = IF jobdef[par.pass[par.i]].threads <= par.available_threads
            THEN [par EXCEPT !.at = "load"]
            ELSE [par EXCEPT !.i = @ + 1]
  /\ UNCHANGED <<wd, cfg, jobdef, exists, mtime, clock, jobs, job_queue, state,
                 exit_code, pc, exc, hist, ex, det, chk, grp, wf>>

\* `available_threads -= job.threads`: the read
admit_load ==
  /\ pc = "parallel"
  /\ par.at = "load"
  /\ par' = [par EXCEPT !.loaded = par.available_threads, !.at = "store"]
  /\ UNCHANGED <<wd, cfg, jobdef, exists, mtime, clock, jobs, job_queue, state,
                 exit_code, pc, exc, hist, ex, det, chk, grp, wf>>

\* `available_threads -= job.threads`: the write, then pool.submit,
\* add_done_callback and submitted_jobs.append
admit_store(p, j) ==
  [p EXCEPT !.available_threads = p.loaded - jobdef[j].threads,
            !.inflight = @ \cup {j},
            !.submitted_jobs = @ \cup {j},
            !.i = @ + 1, !.at = "for"]

admit_submit ==
  /\ pc = "parallel"
  /\ par.at = "store"
  /\ par' = admit_store(par, par.pass[par.i])
  /\ UNCHANGED <<wd, cfg, jobdef, exists, mtime, clock, jobs, job_queue, state,
                 exit_code, pc, exc, hist, ex, det, chk, grp, wf>>

\* end of one pass over the queue: drop the submitted jobs; leave the loop
\* when the queue is empty, else sleep(0.1) and start the next pass
admit_next_pass ==
  /\ pc = "parallel"
  /\ par.at = "for"
  /\ par.i > Len(par.pass)
  /\ LET rest == SelectSeq(par.job_queue, LAMBDA j : j \notin par.submitted_jobs)
     IN par' = IF Len(rest) = 0
               THEN [par EXCEPT !.job_queue = rest, !.at = "join"]
               ELSE [par EXCEPT !.job_queue = rest, !.pass = rest, !.i = 1,
                                !.submitted_jobs = {}]
  /\ par' # par
  /\ UNCHANGED <<wd, cfg, jobdef, exists, mtime, clock, jobs, job_queue, state,
                 exit_code, pc, exc, hist, ex, det, chk, grp, wf>>

\* a pool worker runs _execute_job(job, return_error=True) and completes the
\* future with the job, with the JobFailed, or with the exception raised
worker_run(j) ==
  /\ pc = "parallel"
  /\ j \in par.inflight
  /\ \E W \in ActionWrites(j), ok \in BOOLEAN, now \in clock..MaxTime :
       LET r == execute_job(j, W, ok, now)
       IN /\ clock' = now
          /\ exists' = r.exists
          /\ mtime' = r.mtime
          /\ state' = r.state
          /\ exit_code' = r.exit_code
          /\ det' = r.det
          /\ hist' = r.hist
          /\ par' = [par EXCEPT !.inflight = @ \ {j},
                                !.result[j] = r.result,
                                !.cb[j] = "pending"]
  /\ UNCHANGED <<wd, cfg, jobdef, jobs, job_queue, pc, exc, ex, chk, grp, wf>>

\* job_finished_cb: result = future.result() re-raises an exception of the
\* worker (the callback ends there); else the read of available_threads
cb_load(j) ==
  /\ pc = "parallel"
  /\ par.cb[j] = "pending"
  /\ par' = IF par.result[j] \in {"job", "JobFailed"}
            THEN [par EXCEPT !.cb[j] = "loaded",
                             !.cb_loaded[j] = par.available_threads]
            ELSE [par EXCEPT !.cb[j] = "done"]
  /\ UNCHANGED <<wd, cfg, jobdef, exists, mtime, clock, jobs, job_queue, state,
                 exit_code, pc, exc, hist, ex, det, chk, grp, wf>>

\* job_finished_cb: the write of available_threads and errors.append
CallbackDropsError(p, j) ==
  [p EXCEPT !.available_threads = p.cb_loaded[j] + jobdef[j].threads,
            !.cb[j] = "done"]

job_finished_cb(p, j) ==
  [p EXCEPT !.available_threads = p.cb_loaded[j] + jobdef[j].threads,
            !.errors = IF p.result[j] = "JobFailed" THEN Append(@, j) ELSE @,
            !.cb[j] = "done"]

cb_store(j) ==
  /\ pc = "parallel"
  /\ par.cb[j] = "loaded"
  /\ par' = job_finished_cb(par, j)
  /\ UNCHANGED <<wd, cfg, jobdef, exists, mtime, clock, jobs, job_queue, state,
                 exit_code, pc, exc, hist, ex, det, chk, grp, wf>>

\* leaving `with ThreadPoolExecutor`: shutdown(wait=True) returns when every
\* worker, callbacks included, has finished; then JobBatchFailed if errors
pool_join ==
  /\ pc = "parallel"
  /\ par.at = "join"
  /\ par.inflight = {}
  /\ \A j \in Range(ex.jobs) : par.cb[j] = "done"
  /\ IF Len(par.errors) > 0
     THEN /\ pc' = "raised"
          /\ exc' = RaiseBatch("JobBatchFailed", "execute_jobs",
                              Range(par.errors), Len(ex.jobs))
     ELSE /\ pc' = ex.ret
          /\ UNCHANGED exc
  /\ par' = [par EXCEPT !.at = "idle"]
  /\ UNCHANGED <<wd, cfg, jobdef, exists, mtime, clock, jobs, job_queue, state,
                 exit_code, hist, ex, det, chk, grp, wf>>

\* ------------------------------------------- __finalize_queue after the try
\* `assert job.state.is_done` for every job of the queue
AssertNothing(q, st) == TRUE

assert_done(q, st) == \A j \in Range(q) : st[j] = "DONE"

\* `self.job_queue = []` at the end of a successful __finalize_queue
KeepQueue(q) == q

reset_queue(q) == <<>>

\* the completeness check, the queue reset and the return of execute_jobs
finalize_check ==
  /\ pc = "check"
  /\ IF ~assert_done(job_queue, state)
     THEN /\ pc' = "raised"
          /\ exc' = Raise("AssertionError", "execute_jobs",
                          {j \in Range(job_queue) : state[j] # "DONE"})
          /\ UNCHANGED <<job_queue, hist>>
     ELSE IF \E j \in Range(job_queue) : check_inputs(exists, jobdef[j].inputs) # {}
     THEN \* input.stat() of _check_outputs
          /\ pc' = "raised"
          /\ exc' = Raise("FileNotFoundError", "execute_jobs", {})
          /\ UNCHANGED <<job_queue, hist>>
     ELSE LET incomplete == {j \in Range(job_queue) :
                 check_outputs(exists, mtime, jobdef[j].inputs, jobdef[j].outputs) # {}}
          IN IF incomplete # {}
             THEN /\ pc' = "raised"
                  /\ exc' = Raise("IncompleteOutputs", "execute_jobs", incomplete)
                  /\ UNCHANGED <<job_queue, hist>>
             ELSE /\ job_queue' = reset_queue(job_queue)
                  /\ pc' = IF grp.running THEN "group_batch"
                           ELSE IF ex.final THEN "finished" ELSE "run"
                  /\ hist' = [hist EXCEPT !.returned = hist.flush_no]
                  /\ UNCHANGED exc
  /\ UNCHANGED <<wd, cfg, jobdef, exists, mtime, clock, jobs, state, exit_code,
                 ex, par, det, chk, grp, wf>>

\* ------------------------------------------------------- the workflow run
Next ==
  \/ \E j \in JobIds : collect_job(j)
  \/ \E final \in BOOLEAN : execute_jobs(final)
  \/ call_executor
  \/ call_local_executor
  \/ run_serial
  \/ admit_test
  \/ admit_load
  \/ admit_submit
  \/ admit_next_pass
  \/ \E j \in JobIds : worker_run(j)
  \/ \E j \in JobIds : cb_load(j)
  \/ \E j \in JobIds : cb_store(j)
  \/ pool_join
  \/ finalize_check

Spec == Init /\ [][Next]_vars

\* ------------------------------------------- a flush of three queued jobs
\* The state after three collect_job calls of local PythonCode jobs whose
\* outputs are stale or missing, in a real run with a pool of MaxThreads.
InitParallel ==
  /\ cfg \in [dry_run : {FALSE}, print_commands : {FALSE}, force : BOOLEAN,
              threads : {MaxThreads}, executor : {"LocalExecutor"},
              keep_temp : {FALSE}, force_delete_temp : {FALSE},
              delete_outputs : {FALSE}]
  /\ jobdef \in {JobDef(3, "PythonCode", "PythonCode", TRUE, t3) :
                   t3 \in 1..MaxThreads}
  /\ exists = {"in", "x"}
  /\ mtime = [f \in Files |-> IF f = "in" THEN 2 ELSE IF f = "x" THEN 1 ELSE 0]
  /\ clock = 2
  /\ jobs = [n \in 1..3 |-> [name |-> n, index |-> <<>>, job |-> n]]
  /\ job_queue = <<1, 2, 3>>
  /\ state = [j \in JobIds |-> "WAITING"]
  /\ exit_code = [j \in JobIds |-> -1]
  /\ pc = "run"
  /\ exc = NoExc
  /\ hist = [HistInit EXCEPT !.collected = 1..3]
  /\ ex = ExIdle
  /\ par = ParIdle
  /\ det = DetIdle
  /\ chk = ChkIdle
  /\ grp = GrpIdle
  /\ wf = WfIdle
  /\ wd = WdIdle

NextParallel ==
  \/ \E final \in BOOLEAN : execute_jobs(final)
  \/ call_executor
  \/ call_local_executor
  \/ admit_test
  \/ admit_load
  \/ admit_submit
  \/ admit_next_pass
  \/ \E j \in JobIds : worker_run(j)
  \/ \E j \in JobIds : cb_load(j)
  \/ \E j \in JobIds : cb_store(j)
  \/ pool_join
  \/ finalize_check

SpecParallel == InitParallel /\ [][NextParallel]_vars

\* --------------------------------------------------------- DetachedExecutor
\* decimal rendering of an exit code (`echo $S`) and int() of the text read
RECURSIVE Digits(_)
Digits(n) == IF n < 10 THEN <<n>> ELSE Append(Digits(n \div 10), n % 10)

RECURSIVE ParseInt(_)
ParseInt(d) ==
  IF Len(d) = 1 THEN d[1]
  ELSE 10 * ParseInt(SubSeq(d, 1, Len(d) - 1)) + d[Len(d)]

\* AbstractAction.get_status: -2 without a status file, -1 for an empty one,
\* else the integer it holds
GetStatusEmptyIsZero(d, j) ==
  IF ~d.status_file[j].exists THEN -2
  ELSE IF Len(d.status_file[j].content) = 0 THEN 0
  ELSE ParseInt(d.status_file[j].content)

get_status(d, j) ==
  IF ~d.status_file[j].exists THEN -2
  ELSE IF Len(d.status_file[j].content) = 0 THEN -1
  ELSE ParseInt(d.status_file[j].content)

\* DetachedExecutor._submit_jobs: the submitter starts one process per job
\* (job.action.to_command() of the tracked action) and returns their ids
submit_jobs ==
  /\ pc = "det_submit"
  /\ det' = [det EXCEPT !.proc = [j \in JobIds |->
                                    IF j \in Range(ex.jobs) THEN "submitted"
                                    ELSE det.proc[j]],
                        !.submits = @ + 1]
  /\ hist' = [hist EXCEPT !.started =
                [j \in JobIds |-> IF j \in Range(ex.jobs) THEN hist.flush_no
                                  ELSE hist.started[j]]]
  /\ pc' = "det_wait"
  /\ UNCHANGED <<wd, cfg, jobdef, exists, mtime, clock, jobs, job_queue, state,
                 exit_code, exc, ex, par, chk, grp, wf>>

\* ShellScript.to_command with tracking, the preface: touch <status>
proc_touch(j) ==
  /\ det.proc[j] = "submitted"
  /\ det' = [det EXCEPT !.proc[j] = "running",
                        !.status_file[j].exists = TRUE]
  /\ UNCHANGED <<wd, cfg, jobdef, exists, mtime, clock, jobs, job_queue, state,
                 exit_code, pc, exc, hist, ex, par, chk, grp, wf>>

\* ... the script body: it writes outputs and ends with some exit code
proc_body(j) ==
  /\ det.proc[j] = "running"
  /\ \E W \in ActionWrites(j), code \in 0..MaxExit, now \in clock..MaxTime :
       /\ exists' = exists \cup W
       /\ mtime' = Written(mtime, W, now)
       /\ clock' = now
       /\ det' = [det EXCEPT !.proc[j] = "exiting", !.code[j] = code]
       /\ hist' = [hist EXCEPT !.wrote[j] = W]
  /\ UNCHANGED <<wd, cfg, jobdef, jobs, job_queue, state, exit_code, pc, exc, ex,
                 par, chk, grp, wf>>

\* ... the epilogue: S=$?; echo $S > <status>; exit $S
proc_echo(j) ==
  /\ det.proc[j] = "exiting"
  /\ det' = [det EXCEPT !.proc[j] = "exited",
                        !.status_file[j] = [exists |-> TRUE,
                                            content |-> Digits(det.code[j])]]
  /\ UNCHANGED <<wd, cfg, jobdef, exists, mtime, clock, jobs, job_queue, state,
                 exit_code, pc, exc, hist, ex, par, chk, grp, wf>>

\* _wait_for_jobs: the loop condition `num_finished < len(jobs)`
LoopEndsAfterFirst(d, js) == d.num_finished < 1

loop_continues(d, js) == d.num_finished < Len(js)

\* every job of the sweep is finished or has a status file with an exit code
AllReady(d, st, js) ==
  \A j \in Range(js) :
    st[j] # "WAITING"
      \/ (d.status_file[j].exists /\ Len(d.status_file[j].content) > 0)

\* _wait_for_jobs: `while num_finished < len(jobs)` and sleep(check_delay);
\* after the loop DetachedJobsFailed is raised if a job failed
wait_loop ==
  /\ pc = "det_wait"
  /\ IF loop_continues(det, ex.jobs)
     THEN /\ pc' = "det_sweep"
          /\ det' = [det EXCEPT !.i = 1]
          /\ hist' = [hist EXCEPT !.ready_sweeps =
                        IF AllReady(det, state, ex.jobs) /\ @ < 2
                        THEN @ + 1 ELSE @]
          /\ UNCHANGED exc
     ELSE LET failed == {j \in Range(ex.jobs) : state[j] = "FAILED"}
          IN /\ det' = [det EXCEPT !.i = 0]
             /\ UNCHANGED hist
             /\ IF failed # {}
                THEN /\ pc' = "raised"
                     /\ exc' = RaiseBatch("DetachedJobsFailed", ex.ret, failed,
                                         Len(ex.jobs))
                ELSE /\ pc' = ex.ret
                     /\ UNCHANGED exc
  /\ UNCHANGED <<wd, cfg, jobdef, exists, mtime, clock, jobs, job_queue, state,
                 exit_code, ex, par, chk, grp, wf>>

\* _wait_for_jobs, one job of the sweep `for job in jobs`
polls(st, j) == st[j] = "WAITING"

poll_job ==
  /\ pc = "det_sweep"
  /\ LET j == ex.jobs[det.i]
         status == get_status(det, j)
         next_i == IF det.i = Len(ex.jobs) THEN 0 ELSE det.i + 1
         next_pc == IF next_i = 0 THEN "det_wait" ELSE "det_sweep"
         d1 == [det EXCEPT !.i = next_i]
     IN IF polls(state, j) /\ j \notin det.tracking
        THEN \* get_status: assert isinstance(tracking_status_path, Path)
             /\ pc' = "raised"
             /\ exc' = Raise("AssertionError", ex.ret, {j})
             /\ UNCHANGED <<state, exit_code, det, hist>>
        ELSE IF polls(state, j) /\ status >= 0
        THEN /\ hist' = Called(hist, state, j)
             /\ IF is_finished(state, j)
                THEN \* Job.done, Job.failed: assert not self.state.is_finished
                     /\ pc' = "raised"
                     /\ exc' = Raise("AssertionError", ex.ret, {j})
                     /\ det' = [det EXCEPT !.num_finished = @ + 1]
                     /\ UNCHANGED <<state, exit_code>>
                ELSE /\ pc' = next_pc
                     /\ state' = [state EXCEPT ![j] =
                                    IF status = 0 THEN "DONE" ELSE "FAILED"]
                     /\ exit_code' = [exit_code EXCEPT ![j] = status]
                     /\ det' = clean_up_tracking_status_file(
                                 [d1 EXCEPT !.num_finished = @ + 1], j)
                     /\ UNCHANGED exc
        ELSE /\ pc' = next_pc
             /\ det' = d1
             /\ UNCHANGED <<state, exit_code, exc, hist>>
  /\ UNCHANGED <<wd, cfg, jobdef, exists, mtime, clock, jobs, job_queue, ex, par, chk, grp, wf>>

\* A direct call executor._run_jobs(jobs, print_commands=...) of the
\* DetachedExecutor on the queued, tracked ShellScript jobs of a workflow
InitDetached ==
  /\ cfg \in [dry_run : {FALSE}, print_commands : BOOLEAN, force : {FALSE},
              threads : {1}, executor : {"DetachedExecutor"},
              keep_temp : {FALSE}, force_delete_temp : {FALSE},
              delete_outputs : {FALSE}]
  /\ jobdef = JobDef(3, "ShellScript", "ShellScript", FALSE, 1)
  /\ exists = {"in", "x"}
  /\ mtime = [f \in Files |-> IF f = "in" THEN 2 ELSE IF f = "x" THEN 1 ELSE 0]
  /\ clock = 2
  /\ jobs = [n \in 1..2 |-> [name |-> n, index |-> <<>>, job |-> n]]
  /\ job_queue = <<1, 2>>
  /\ state = [j \in JobIds |-> "WAITING"]
  /\ exit_code = [j \in JobIds |-> -1]
  /\ pc = "det_submit"
  /\ exc = NoExc
  /\ hist = [HistInit EXCEPT !.collected = 1..2, !.flush_no = 1,
                             !.dispatched = [j \in JobIds |-> IF j \in 1..2 THEN 1 ELSE 0]]
  /\ ex = [ExIdle EXCEPT !.executor = "DetachedExecutor", !.jobs = <<1, 2>>,
                         !.ret = "returned"]
  /\ par = ParIdle
  /\ det = [DetIdle EXCEPT !.tracking = 1..2]
  /\ chk = ChkIdle
  /\ grp = GrpIdle
  /\ wf = WfIdle
  /\ wd = WdIdle

NextDetached ==
  \/ submit_jobs
  \/ \E j \in JobIds : proc_touch(j)
  \/ \E j \in JobIds : proc_body(j)
  \/ \E j \in JobIds : proc_echo(j)
  \/ wait_loop
  \/ poll_job

SpecDetached == InitDetached /\ [][NextDetached]_vars

\* the thread of _run_jobs keeps running: sleep(check_delay) returns and the
\* loop takes its next step; the job processes need not make progress
SpecDetachedFair ==
  SpecDetached /\ WF_vars(wait_loop) /\ WF_vars(poll_job)

\* ------------------------------------------ a direct check_up_to_date call
InitFresh ==
  /\ cfg = [delete_outputs |-> FALSE,
            dry_run |-> FALSE, print_commands |-> FALSE, force |-> FALSE,
            threads |-> 1, executor |-> "LocalExecutor", keep_temp |-> FALSE,
            force_delete_temp |-> FALSE]
  /\ jobdef = JobDef(3, "PythonCode", "PythonCode", TRUE, 1)
  /\ exists \in SUBSET Files
  /\ mtime \in [Files -> 0..MaxTime]
  /\ \A f \in Files : (f \in exists) <=> (mtime[f] > 0)
  /\ clock = MaxTime
  /\ jobs = <<>>
  /\ job_queue = <<>>
  /\ state = [j \in JobIds |-> "WAITING"]
  /\ exit_code = [j \in JobIds |-> -1]
  /\ pc = "check_up_to_date"
  /\ exc = NoExc
  /\ hist = HistInit
  /\ ex = ExIdle
  /\ par = ParIdle
  /\ det = DetIdle
  /\ chk \in [inputs : SUBSET Files, outputs : SUBSET Files, result : {"none"},
              post : {[called |-> FALSE, raised |-> FALSE, files |-> {}]}]
  /\ grp = GrpIdle
  /\ wf = WfIdle
  /\ wd = WdIdle

call_check_up_to_date ==
  /\ pc = "check_up_to_date"
  /\ chk.result = "none"
  /\ chk' = [chk EXCEPT !.result =
               check_up_to_date(exists, mtime, chk.inputs, chk.outputs)]
  /\ pc' = "returned"
  /\ UNCHANGED <<wd, cfg, jobdef, exists, mtime, clock, jobs, job_queue, state,
                 exit_code, exc, hist, ex, par, det, grp, wf>>

\* Workflow._check_outputs called with the same inputs and outputs on the same
\* files, before or after check_up_to_date
call_check_outputs ==
  /\ pc \in {"check_up_to_date", "returned"}
  /\ ~chk.post.called
  /\ chk' = [chk EXCEPT !.post =
               check_outputs_call(exists, mtime, chk.inputs, chk.outputs)]
  /\ UNCHANGED <<wd, cfg, jobdef, exists, mtime, clock, jobs, job_queue, state,
                 exit_code, pc, exc, hist, ex, par, det, grp, wf>>

NextFresh == call_check_up_to_date \/ call_check_outputs

SpecFresh == InitFresh /\ [][NextFresh]_vars

\* ---------------------------------------------------------------- resources
\* a resource dict maps some of the keys to numbers
ResKeys == {"threads", "mem"}
ResDicts == UNION {[D -> 1..MaxThreads] : D \in SUBSET ResKeys}
EmptyDict == [k \in {} |-> 0]

\* dict.update / `base_res | params["resources"]`: the right side wins
dict_update(a, b) ==
  [k \in DOMAIN a \cup DOMAIN b |-> IF k \in DOMAIN b THEN b[k] ELSE a[k]]

\* the names that may have an entry in the resources file
ResNames == {1, 2}

\* `resources=None`, the default of collect_job: None is not a key of the file
NoneKey == 0

\* RootResources.__init__: __default__ is created if missing and gets
\* threads = 1 unless it sets threads
RootResources(default, byname) ==
  [default |-> dict_update([k \in {"threads"} |-> 1], default),
   byname |-> byname]

\* RootResources.__getitem__
resources_getitem(root, key) ==
  dict_update(root.default,
              IF key \in DOMAIN root.byname THEN root.byname[key] ELSE EmptyDict)

\* Workflow.__preprare_params, the resources of the job: params is a copy of
\* the locals of collect_job, so the key "resources" is always there; a dict
\* is merged over the entry of the job name, anything else (None too) is
\* looked up as an identifier
prepare_resources(root, name, resources) ==
  IF resources.is_dict
  THEN dict_update(resources_getitem(root, name), resources.dict)
  ELSE resources_getitem(root, resources.id)

\* Job.__init__: self.threads = self.resources.get("threads", 1)
job_threads(res) == IF "threads" \in DOMAIN res THEN res["threads"] ELSE 1

\* one collect_job call against a resources file: the job name and the
\* `resources` argument (None, an identifier or a dict of overrides)
InitResources ==
  /\ cfg = [delete_outputs |-> FALSE,
            dry_run |-> FALSE, print_commands |-> FALSE, force |-> FALSE,
            threads |-> 1, executor |-> "LocalExecutor", keep_temp |-> FALSE,
            force_delete_temp |-> FALSE]
  /\ jobdef = JobDef(3, "PythonCode", "PythonCode", TRUE, 1)
  /\ exists = Files
  /\ mtime = [f \in Files |-> 2]
  /\ clock = 2
  /\ jobs = <<>>
  /\ job_queue = <<>>
  /\ state = [j \in JobIds |-> "WAITING"]
  /\ exit_code = [j \in JobIds |-> -1]
  /\ pc = "prepare_params"
  /\ exc = NoExc
  /\ hist = HistInit
  /\ ex = ExIdle
  /\ par = ParIdle
  /\ det = DetIdle
  /\ \E default \in ResDicts, names \in SUBSET ResNames :
       \E byname \in [names -> ResDicts], name \in ResNames,
          is_dict \in BOOLEAN, id \in ResNames \cup {NoneKey}, d \in ResDicts :
         /\ is_dict => id = NoneKey
         /\ ~is_dict => d = EmptyDict
         /\ chk = [root |-> RootResources(default, byname),
                   name |-> name,
                   resources |-> [is_dict |-> is_dict, id |-> id, dict |-> d],
                   done |-> FALSE, result |-> EmptyDict, threads |-> 0]
  /\ grp = GrpIdle
  /\ wf = WfIdle
  /\ wd = WdIdle

call_prepare_params ==
  /\ pc = "prepare_params"
  /\ ~chk.done
  /\ LET res == prepare_resources(chk.root, chk.name, chk.resources)
     IN chk' = [chk EXCEPT !.done = TRUE, !.result = res,
                           !.threads = job_threads(res)]
  /\ pc' = "returned"
  /\ UNCHANGED <<wd, cfg, jobdef, exists, mtime, clock, jobs, job_queue, state,
                 exit_code, exc, hist, ex, par, det, grp, wf>>

SpecResources == InitResources /\ [][call_prepare_params]_vars

\* ------------------------------------------------------------ grouped_jobs
\* chain.from_iterable(job.inputs for job in batch), and the same for outputs
BatchInputs(batch) == UNION {jobdef[j].inputs : j \in Range(batch)}

BatchOutputs(batch) == UNION {jobdef[j].outputs : j \in Range(batch)}

\* Workflow.is_group_up_to_date behind check_group_post_conditions(
\* return_bool=True): throws() turns every exception into False
GroupNeverUpToDate(ex_set, mt, batches) == FALSE

is_group_up_to_date(ex_set, mt, batches) ==
  check_up_to_date(ex_set, mt, BatchInputs(batches[1]),
                   BatchOutputs(batches[Len(batches)])) = "ok"

\* __clean_group_intermediates: the files that are unlinked
IntermediatesKept(batches, keep_temp) == {}

IntermediatesByPosition(batches, keep_temp) ==
  IF keep_temp \/ Len(batches) = 0 THEN {}
  ELSE BatchOutputs(batches[1]) \cup BatchInputs(batches[Len(batches)])
         \cup UNION {BatchInputs(batches[b]) \cup BatchOutputs(batches[b]) :
                       b \in 2..(Len(batches) - 1)}

intermediate_files(batches, keep_temp) ==
  IF keep_temp \/ Len(batches) = 0 THEN {}
  ELSE LET all_files == UNION {BatchInputs(batches[b]) \cup BatchOutputs(batches[b]) :
                                 b \in 1..Len(batches)}
           interface_files == BatchInputs(batches[1])
                                \cup BatchOutputs(batches[Len(batches)])
       IN all_files \ interface_files

BypassNever(c) == FALSE

\* grouped_jobs, `if self.force and not self.delete_outputs: yield`
group_bypassed(c) == c.force /\ ~c.delete_outputs

SkippedBatchesKept(batches, force_delete_temp) == batches

\* __execute_group_job_batches for an up-to-date group: without
\* force_delete_temp the batch list is emptied, so that the cleanup that
\* follows finds nothing
skipped_batches(batches, force_delete_temp) ==
  IF force_delete_temp THEN batches ELSE <<>>

\* grouped_jobs.__enter__: with force (delete_outputs is not set) the scope
\* has no effect, else __collect_job_group switches to collection mode
group_enter(temp_intermediates) ==
  /\ pc = "run"
  /\ at_call(wf, "grouped_jobs", IF temp_intermediates THEN 1 ELSE 0)
  /\ wf' = called(wf)
  /\ ~grp.scope
  /\ grp.entered < MaxGroups
  /\ grp' = [grp EXCEPT !.scope = TRUE,
                        !.collect_group = ~group_bypassed(cfg),
                        !.batches = <<>>,
                        !.temp_intermediates = temp_intermediates /\ ~cfg.force
                                                 /\ ~cfg.delete_outputs,
                        !.entered = @ + 1]
  /\ UNCHANGED <<wd, cfg, jobdef, exists, mtime, clock, jobs, job_queue, state,
                 exit_code, pc, exc, hist, ex, par, det, chk>>

\* grouped_jobs.__enter__ inside an open scope: __collect_job_group assigns
\* the same attributes again (the queue is left as it is); with force
\* (delete_outputs is not set) the inner scope has no effect either
group_enter_nested(temp_intermediates) ==
  /\ pc = "run"
  /\ at_call(wf, "grouped_jobs", IF temp_intermediates THEN 1 ELSE 0)
  /\ wf' = called(wf)
  /\ grp.scope
  /\ Len(grp.outer) < MaxInner
  /\ grp.entered < MaxGroups + MaxInner
  /\ grp' = IF group_bypassed(cfg)
            THEN [grp EXCEPT !.outer = Append(@, grp.temp_intermediates),
                             !.entered = @ + 1]
            ELSE [grp EXCEPT !.collect_group = TRUE,
                             !.batches = <<>>,
                             !.temp_intermediates = temp_intermediates
                                                      /\ ~cfg.delete_outputs,
                             !.outer = Append(@, grp.temp_intermediates),
                             !.entered = @ + 1]
  /\ UNCHANGED <<wd, cfg, jobdef, exists, mtime, clock, jobs, job_queue, state,
                 exit_code, pc, exc, hist, ex, par, det, chk>>

GroupResetKeepsBatches(g) ==
  [g EXCEPT !.scope = FALSE, !.collect_group = FALSE, !.running = FALSE,
            !.k = 0]

\* the finally block of __collect_job_group, and the return to the enclosing
\* scope if there is one
group_reset(g) ==
  [g EXCEPT !.scope = g.outer # <<>>, !.collect_group = FALSE,
            !.batches = <<>>, !.running = FALSE, !.k = 0,
            !.temp_intermediates = IF g.outer # <<>> THEN g.outer[Len(g.outer)]
                                   ELSE @,
            !.outer = IF g.outer # <<>> THEN SubSeq(@, 1, Len(@) - 1) ELSE @]

\* grouped_jobs.__exit__ without an exception: execute_jobs(final=True) adds
\* the last batch, then __execute_group_job_batches checks the first stage's
\* pre-conditions and the group's post-conditions; an up-to-date group is
\* skipped (and cleaned if temp_intermediates), a stale one starts the loop
\* over its batches
group_exit ==
  /\ pc = "run"
  /\ at_call(wf, "exit", 0)
  /\ wf' = called(wf)
  /\ grp.scope
  /\ LET batches == IF grp.collect_group /\ Len(job_queue) > 0
                    THEN collect_batch(grp.batches, job_queue) ELSE grp.batches
         g1 == [grp EXCEPT !.batches = batches]
     IN IF group_bypassed(cfg)
        THEN /\ grp' = group_reset(grp)
             /\ UNCHANGED <<job_queue, pc, exc, exists, mtime, hist, ex>>
        ELSE IF ~grp.collect_group
        THEN \* an inner scope has left _collect_group False: execute_jobs(
             \* final=True) flushes the queue, then `assert self._collect_group`
             IF Len(job_queue) > 0
             THEN /\ pc' = "call_executor"
                  /\ ex' = ExIdle
                  /\ hist' = [hist EXCEPT !.flush_no = @ + 1]
                  /\ grp' = [grp EXCEPT !.running = TRUE, !.k = 0]
                  /\ UNCHANGED <<job_queue, exc, exists, mtime>>
             ELSE /\ pc' = "raised"
                  /\ exc' = Raise("AssertionError", "grouped_jobs", {})
                  /\ UNCHANGED <<job_queue, grp, exists, mtime, hist, ex>>
        ELSE /\ job_queue' = <<>>
             /\ ex' = ex
             /\ IF Len(batches) = 0
                THEN /\ grp' = group_reset(g1)
                     /\ UNCHANGED <<pc, exc, exists, mtime, hist>>
                ELSE IF \E j \in Range(batches[1]) :
                          check_inputs(exists, jobdef[j].inputs) # {}
                THEN /\ pc' = "raised"
                     /\ exc' = Raise("MissingInputs", "grouped_jobs",
                                     {j \in Range(batches[1]) :
                                        check_inputs(exists, jobdef[j].inputs) # {}})
                     /\ grp' = g1
                     /\ UNCHANGED <<exists, mtime, hist>>
                ELSE IF is_group_up_to_date(exists, mtime, batches)
                THEN LET kept == skipped_batches(batches, cfg.force_delete_temp)
                         gone == IF grp.temp_intermediates
                                 THEN intermediate_files(kept, cfg.keep_temp)
                                 ELSE {}
                     IN /\ exists' = exists \ gone
                        /\ mtime' = Forget(mtime, exists')
                        /\ grp' = group_reset(g1)
                        /\ hist' = [hist EXCEPT !.skipped = @ \cup
                                      UNION {Range(batches[b]) : b \in 1..Len(batches)},
                                      !.cleaned = @ \cup (gone \cap exists)]
                        /\ UNCHANGED <<pc, exc>>
                ELSE /\ pc' = "group_batch"
                     /\ grp' = [g1 EXCEPT !.collect_group = FALSE,
                                          !.running = TRUE, !.k = 1]
                     /\ UNCHANGED <<exc, exists, mtime, hist>>
  /\ UNCHANGED <<wd, cfg, jobdef, clock, jobs, state, exit_code, par,
                 det, chk>>

NextBatchBackwards(batches, k) == batches[Len(batches) + 1 - k]

\* the k-th pass of `for job_batch in self._group_job_batches`
next_batch(batches, k) == batches[k]

\* __execute_group_job_batches, `for job_batch in self._group_job_batches`:
\* the next batch becomes the queue and execute_jobs() flushes it; after the
\* last batch the intermediates are cleaned (temp_intermediates) and the
\* scope ends
group_next_batch ==
  /\ pc = "group_batch"
  /\ IF grp.k = 0
     THEN \* the flush of execute_jobs(final=True) has returned in a scope
          \* whose _collect_group an inner scope has cleared
          /\ pc' = "raised"
          /\ exc' = Raise("AssertionError", "grouped_jobs", {})
          /\ grp' = [grp EXCEPT !.running = FALSE]
          /\ UNCHANGED <<job_queue, ex, hist, exists, mtime>>
     ELSE IF grp.k <= Len(grp.batches)
     THEN /\ job_queue' = next_batch(grp.batches, grp.k)
          /\ grp' = [grp EXCEPT !.k = @ + 1]
          /\ pc' = "call_executor"
          /\ ex' = ExIdle
          /\ hist' = [hist EXCEPT !.flush_no = @ + 1]
          /\ UNCHANGED <<exc, exists, mtime>>
     ELSE IF grp.temp_intermediates
             /\ ~is_group_up_to_date(exists, mtime, grp.batches)
     THEN \* assert self.check_group_post_conditions(return_bool=True)
          /\ pc' = "raised"
          /\ exc' = Raise("AssertionError", "grouped_jobs", {})
          /\ grp' = [grp EXCEPT !.running = FALSE, !.collect_group = TRUE]
          /\ UNCHANGED <<job_queue, ex, hist, exists, mtime>>
     ELSE LET gone == IF grp.temp_intermediates
                      THEN intermediate_files(grp.batches, cfg.keep_temp)
                      ELSE {}
          IN /\ exists' = exists \ gone
             /\ mtime' = Forget(mtime, exists')
             /\ pc' = "run"
             /\ grp' = group_reset(grp)
             /\ hist' = [hist EXCEPT !.cleaned = @ \cup (gone \cap exists)]
             /\ UNCHANGED <<job_queue, ex, exc>>
  /\ UNCHANGED <<wd, cfg, jobdef, clock, jobs, state, exit_code, par, det, chk, wf>>

\* an exception raised inside the scope passes the finally block
group_unwind ==
  /\ pc = "raised"
  /\ grp.scope
  /\ grp' = group_reset(grp)
  /\ UNCHANGED <<wd, cfg, jobdef, exists, mtime, clock, jobs, job_queue, state,
                 exit_code, pc, exc, hist, ex, par, det, chk, wf>>

\* a workflow whose definition opens a grouped_jobs scope
InitGroup ==
  /\ cfg \in [dry_run : BOOLEAN, print_commands : BOOLEAN, force : BOOLEAN,
              threads : {1}, executor : {"LocalExecutor"},
              keep_temp : BOOLEAN, force_delete_temp : BOOLEAN,
              delete_outputs : {FALSE}]
  \* Workflow.__init__ raises ValueError when both are given
  /\ ~(cfg.keep_temp /\ cfg.force_delete_temp)
  /\ cfg.print_commands = cfg.dry_run
  /\ jobdef \in {JobDef(3, k1, "PythonCode", TRUE, 1) : k1 \in Kinds}
  /\ InitialFiles(exists, mtime)
  /\ clock = 2
  /\ jobs = <<>>
  /\ job_queue = <<>>
  /\ state = [j \in JobIds |-> "WAITING"]
  /\ exit_code = [j \in JobIds |-> -1]
  /\ pc = "run"
  /\ exc = NoExc
  /\ hist = HistInit
  /\ ex = ExIdle
  /\ par = ParIdle
  /\ det = DetIdle
  /\ chk = ChkIdle
  /\ grp = GrpIdle
  /\ wf = WfIdle
  /\ wd = WdIdle

GroupNext ==
  \/ \E t \in BOOLEAN : group_enter(t)
  \/ group_exit
  \/ group_next_batch
  \/ group_unwind

NextGroup == Next \/ GroupNext

SpecGroup == InitGroup /\ [][NextGroup]_vars

\* The end of the batch loop of a stale group with temp_intermediates, for
\* every shape of group: each job reads and writes at most one file, the
\* three jobs are spread over two or three batches, every flush has passed
\* its completeness check (the files of the jobs exist, no output is older
\* than an input); chk keeps the batches for the comparison afterwards
InitCleanup ==
  /\ cfg \in [dry_run : {FALSE}, print_commands : {FALSE}, force : {FALSE},
              threads : {1}, executor : {"LocalExecutor"},
              keep_temp : BOOLEAN, force_delete_temp : {FALSE},
              delete_outputs : {FALSE}]
  /\ \E I \in [JobIds -> {S \in SUBSET Files : Cardinality(S) <= 1}],
        O \in [JobIds -> {S \in SUBSET Files : Cardinality(S) <= 1}] :
       jobdef = [j \in JobIds |->
                   [name |-> j, exec_local |-> TRUE, inputs |-> I[j],
                    outputs |-> O[j], index |-> <<>>, threads |-> 1,
                    kind |-> "PythonCode"]]
  /\ exists \in SUBSET Files
  /\ \A j \in JobIds : jobdef[j].inputs \cup jobdef[j].outputs \subseteq exists
  /\ mtime = [f \in Files |-> IF f \in exists THEN 1 ELSE 0]
  /\ clock = 1
  /\ jobs = [n \in 1..3 |-> [name |-> n, index |-> <<>>, job |-> n]]
  /\ job_queue = <<>>
  /\ state = [j \in JobIds |-> "DONE"]
  /\ exit_code = [j \in JobIds |-> 0]
  /\ pc = "group_batch"
  /\ exc = NoExc
  /\ \E B \in {<<<<1>>, <<2>>, <<3>>>>, <<<<1, 2>>, <<3>>>>, <<<<1>>, <<2, 3>>>>} :
       /\ grp = [GrpIdle EXCEPT !.scope = TRUE, !.batches = B,
                                !.temp_intermediates = TRUE, !.running = TRUE,
                                !.k = Len(B) + 1, !.entered = 1]
       /\ chk = [inputs |-> {}, outputs |-> {}, result |-> "none", batches |-> B]
       /\ hist = [HistInit EXCEPT
                    !.collected = JobIds,
                    !.flush_no = Len(B),
                    !.returned = Len(B),
                    !.dispatched = [j \in JobIds |->
                       CHOOSE b \in 1..Len(B) : j \in Range(B[b])],
                    !.started = [j \in JobIds |->
                       CHOOSE b \in 1..Len(B) : j \in Range(B[b])],
                    !.wrote = [j \in JobIds |-> jobdef[j].outputs],
                    !.finished_calls = [j \in JobIds |-> 1]]
  /\ ex = ExIdle
  /\ par = ParIdle
  /\ det = DetIdle
  /\ wf = WfIdle
  /\ wd = WdIdle

SpecCleanup == InitCleanup /\ [][group_next_batch]_vars

\* a workflow whose definition opens a grouped_jobs scope inside another
NextNested == NextGroup \/ \E t \in BOOLEAN : group_enter_nested(t)

SpecNested == InitGroup /\ [][NextNested]_vars

\* ------------------------------------------------------- Workflow.__call__
Reverse(q) == [i \in 1..Len(q) |-> q[Len(q) + 1 - i]]

\* __delete_collected_outputs: the jobs whose outputs are discarded, in the
\* order of the calls of _discard_files (reversed(list(jobs_db.values())),
\* recursively for the dict of an indexed name)
delete_collected_outputs(reg) == [i \in 1..Len(reg) |-> Reverse(reg)[i].job]

\* Workflow.__call__ after run() and the final flush: the except clauses,
\* the finally block and post_run.  An AssertionError is raised again; with
\* delete_outputs any other exception is logged with the last job of the
\* registry (IndexError when there is none) and dropped; the finally block
\* discards the outputs of the collected jobs
workflow_return ==
  /\ pc \in {"finished", "raised"}
  /\ ~grp.scope
  /\ LET caught == pc = "raised" /\ exc.kind # "AssertionError"
                     /\ cfg.delete_outputs
         deleted == IF cfg.delete_outputs THEN delete_collected_outputs(jobs)
                    ELSE <<>>
     IN /\ IF pc = "finished" \/ (caught /\ Len(jobs) > 0)
           THEN pc' = "returned" /\ exc' = NoExc
           ELSE /\ pc' = "propagated"
                /\ exc' = IF caught
                          THEN Raise("IndexError", "__call__", {})
                          ELSE exc
        /\ exists' = exists \ UNION {jobdef[j].outputs : j \in Range(deleted)}
        /\ mtime' = Forget(mtime, exists')
        /\ hist' = [hist EXCEPT !.deleted = deleted,
                                !.stopped = IF pc = "raised" THEN exc.kind
                                            ELSE "none"]
  /\ UNCHANGED <<wd, cfg, jobdef, clock, jobs, job_queue, state, exit_code, ex,
                 par, det, chk, grp, wf>>

\* Job.index and Job.name as the user program passes them
Indices == {<<>>, <<0>>, <<1>>}

Indexed(jd, n2, i1, i2, i3) ==
  [j \in JobIds |->
     [jd[j] EXCEPT !.name = IF j = 2 THEN n2 ELSE @,
                   !.index = IF j = 1 THEN i1 ELSE IF j = 2 THEN i2
                             ELSE IF j = 3 THEN i3 ELSE @]]

\* a workflow call with named and indexed jobs, with or without
\* delete_outputs (which sets dry_run, force and keep_temp)
InitRegistry ==
  /\ cfg \in [dry_run : BOOLEAN, print_commands : BOOLEAN, force : BOOLEAN,
              threads : {1}, executor : {"LocalExecutor"},
              keep_temp : BOOLEAN, force_delete_temp : {FALSE},
              delete_outputs : BOOLEAN]
  /\ cfg.dry_run = cfg.delete_outputs
  /\ cfg.keep_temp = cfg.delete_outputs
  /\ cfg.delete_outputs => cfg.force
  /\ cfg.print_commands => cfg.dry_run
  \* job 3 has the name of job 1, job 2 has it or its own
  /\ jobdef \in {Indexed(JobDef(1, k1, "PythonCode", TRUE, 1), n2, i1, i2, i3) :
                   k1 \in Kinds, n2 \in {1, 2},
                   i1 \in Indices, i2 \in Indices, i3 \in Indices}
  /\ InitialFiles(exists, mtime)
  /\ clock = 2
  /\ jobs = <<>>
  /\ job_queue = <<>>
  /\ state = [j \in JobIds |-> "WAITING"]
  /\ exit_code = [j \in JobIds |-> -1]
  /\ pc = "run"
  /\ exc = NoExc
  /\ hist = HistInit
  /\ ex = ExIdle
  /\ par = ParIdle
  /\ det = DetIdle
  /\ chk = ChkIdle
  /\ grp = GrpIdle
  /\ wf = WfIdle
  /\ wd = WdIdle

NextRegistry == Next \/ workflow_return

SpecRegistry == InitRegistry /\ [][NextRegistry]_vars

\* a workflow call whose definition may open a grouped_jobs scope, with or
\* without delete_outputs; keep_temp and force_delete_temp exclude each other
InitCall ==
  /\ cfg \in [dry_run : BOOLEAN, print_commands : BOOLEAN, force : BOOLEAN,
              threads : {1}, executor : {"LocalExecutor"},
              keep_temp : BOOLEAN, force_delete_temp : BOOLEAN,
              delete_outputs : BOOLEAN]
  /\ cfg.delete_outputs => (cfg.dry_run /\ cfg.force /\ cfg.keep_temp)
  /\ ~(cfg.keep_temp /\ cfg.force_delete_temp)
  /\ cfg.print_commands => cfg.dry_run
  /\ (cfg.dry_run /\ ~cfg.delete_outputs) => cfg.print_commands
  /\ jobdef \in {JobDef(3, k1, "PythonCode", TRUE, 1) : k1 \in Kinds}
  /\ InitialFiles(exists, mtime)
  /\ clock = 2
  /\ jobs = <<>>
  /\ job_queue = <<>>
  /\ state = [j \in JobIds |-> "WAITING"]
  /\ exit_code = [j \in JobIds |-> -1]
  /\ pc = "run"
  /\ exc = NoExc
  /\ hist = HistInit
  /\ ex = ExIdle
  /\ par = ParIdle
  /\ det = DetIdle
  /\ chk = ChkIdle
  /\ grp = GrpIdle
  /\ wf = WfIdle
  /\ wd = WdIdle

NextCall == NextGroup \/ workflow_return

SpecCall == InitCall /\ [][NextCall]_vars

\* ------------------------------------------------ the same workflow, twice
\* the definitions: jobs 1..n are collected in this order, execute_jobs() is
\* called after the jobs of F, and the jobs a..b are collected inside a
\* grouped_jobs scope with temp_intermediates = t (no scope if a = 0)
RECURSIVE DefinitionFrom(_, _, _, _, _, _)
DefinitionFrom(j, n, F, a, b, t) ==
  IF j > n THEN <<>>
  ELSE (IF j = a THEN <<Call("grouped_jobs", t)>> ELSE <<>>)
       \o <<Call("collect_job", j)>>
       \o (IF j \in F THEN <<Call("execute_jobs", 0)>> ELSE <<>>)
       \o (IF j = b THEN <<Call("exit", 0)>> ELSE <<>>)
       \o DefinitionFrom(j + 1, n, F, a, b, t)

Scopes(n) ==
  {<<0, 0, 0>>} \cup {g \in (1..n) \X (1..n) \X (0..1) : g[1] <= g[2]}

Definitions ==
  UNION {{DefinitionFrom(1, n, F, g[1], g[2], g[3]) :
            F \in SUBSET (1..n), g \in Scopes(n)} : n \in 1..NJobs}

\* a workflow with a given definition, called on some file system
InitRerun ==
  /\ cfg \in [dry_run : BOOLEAN, print_commands : BOOLEAN, force : BOOLEAN,
              threads : {1}, executor : {"LocalExecutor"},
              keep_temp : BOOLEAN, force_delete_temp : BOOLEAN,
              delete_outputs : {FALSE}]
  /\ ~(cfg.keep_temp /\ cfg.force_delete_temp)
  /\ cfg.print_commands = cfg.dry_run
  /\ jobdef = JobDef(3, "PythonCode", "PythonCode", TRUE, 1)
  /\ InitialFiles(exists, mtime)
  /\ clock = 2
  /\ jobs = <<>>
  /\ job_queue = <<>>
  /\ state = [j \in JobIds |-> "WAITING"]
  /\ exit_code = [j \in JobIds |-> -1]
  /\ pc = "run"
  /\ exc = NoExc
  /\ hist = HistInit
  /\ ex = ExIdle
  /\ par = ParIdle
  /\ det = DetIdle
  /\ chk = ChkIdle
  /\ grp = GrpIdle
  /\ \E d \in Definitions :
       wf = [given |-> TRUE, definition |-> d, ip |-> 1, run |-> 1,
             first |-> <<>>]
  /\ wd = WdIdle

\* the workflow has returned without an exception and is constructed and
\* called again: a new Workflow object, the same definition, the files as
\* the first run left them
second_run ==
  /\ pc = "returned"
  /\ hist.stopped = "none"
  /\ wf.given /\ wf.run = 1
  /\ wf' = [wf EXCEPT !.ip = 1, !.run = 2, !.first = <<hist>>]
  /\ jobs' = <<>>
  /\ job_queue' = <<>>
  /\ state' = [j \in JobIds |-> "WAITING"]
  /\ exit_code' = [j \in JobIds |-> -1]
  /\ pc' = "run"
  /\ exc' = NoExc
  /\ hist' = HistInit
  /\ ex' = ExIdle
  /\ par' = ParIdle
  /\ det' = DetIdle
  /\ grp' = GrpIdle
  /\ UNCHANGED <<wd, cfg, jobdef, exists, mtime, clock, chk>>

NextRerun == NextCall \/ second_run

SpecRerun == InitRerun /\ [][NextRerun]_vars

\* every way a job changes state: workflow runs with and without groups, and
\* the poll loop of the detached executor
InitLifecycle == InitGroup \/ InitDetached

NextLifecycle == NextGroup \/ NextDetached

SpecLifecycle == InitLifecycle /\ [][NextLifecycle]_vars

\* -------------------------------------------------------- Workflow.__init__
\* the executor classes that the module executors defines
ExecutorsModule == {"AbstractExecutor", "LocalExecutor", "DetachedExecutor"}

\* the attribute lookup executors.<name>
executors_getattr(name) ==
  IF name \in ExecutorsModule THEN name ELSE "AttributeError"

\* Workflow.__init__, operation control flags and force_executor: the
\* effective configuration, or the exception raised
workflow_init(args) ==
  LET dry_run == args.dry_run \/ args.delete_outputs
      force == args.force \/ args.delete_outputs
      keep_temp == args.keep_temp \/ args.delete_outputs
      force_delete_temp == args.force_delete_temp /\ ~args.delete_outputs
      forced == executors_getattr("TouchExecutor")
      executor == IF args.touch THEN forced
                  ELSE IF args.delete_outputs THEN args.local_executor
                  ELSE args.executor
      local_executor == IF args.touch THEN forced ELSE args.local_executor
  IN IF args.touch /\ args.delete_outputs THEN [raised |-> "ValueError"]
     ELSE IF keep_temp /\ force_delete_temp THEN [raised |-> "ValueError"]
     ELSE IF args.touch /\ forced = "AttributeError"
     THEN [raised |-> "AttributeError"]
     ELSE [raised |-> "none",
           cfg |-> [dry_run |-> dry_run, print_commands |-> args.print_commands,
                    force |-> force, threads |-> args.threads,
                    executor |-> executor, keep_temp |-> keep_temp,
                    force_delete_temp |-> force_delete_temp,
                    delete_outputs |-> args.delete_outputs],
           local_executor |-> local_executor]

\* the arguments of a call Workflow(...): cfg holds the flags as given until
\* __init__ has run
InitConstruct ==
  /\ \E a \in [dry_run : BOOLEAN, print_commands : BOOLEAN, force : BOOLEAN,
               threads : {1}, executor : {"LocalExecutor", "DetachedExecutor"},
               local_executor : {"LocalExecutor"},
               keep_temp : BOOLEAN, force_delete_temp : BOOLEAN,
               delete_outputs : BOOLEAN, touch : BOOLEAN] :
       /\ chk = [args |-> a, local_executor |-> a.local_executor]
       /\ cfg = [dry_run |-> a.dry_run, print_commands |-> a.print_commands,
                 force |-> a.force, threads |-> a.threads,
                 executor |-> a.executor, keep_temp |-> a.keep_temp,
                 force_delete_temp |-> a.force_delete_temp,
                 delete_outputs |-> a.delete_outputs]
  /\ jobdef = JobDef(3, "PythonCode", "PythonCode", TRUE, 1)
  /\ exists = {}
  /\ mtime = [f \in Files |-> 0]
  /\ clock = 1
  /\ jobs = <<>>
  /\ job_queue = <<>>
  /\ state = [j \in JobIds |-> "WAITING"]
  /\ exit_code = [j \in JobIds |-> -1]
  /\ pc = "init"
  /\ exc = NoExc
  /\ hist = HistInit
  /\ ex = ExIdle
  /\ par = ParIdle
  /\ det = DetIdle
  /\ grp = GrpIdle
  /\ wf = WfIdle
  /\ wd = WdIdle

call_workflow_init ==
  /\ pc = "init"
  /\ LET made == workflow_init(chk.args)
     IN IF made.raised # "none"
        THEN /\ exc' = Raise(made.raised, "__init__", {})
             /\ pc' = "raised"
             /\ UNCHANGED <<cfg, chk>>
        ELSE /\ cfg' = made.cfg
             /\ chk' = [chk EXCEPT !.local_executor = made.local_executor]
             /\ pc' = "constructed"
             /\ UNCHANGED exc
  /\ UNCHANGED <<wd, jobdef, exists, mtime, clock, jobs, job_queue, state,
                 exit_code, hist, ex, par, det, grp, wf>>

SpecConstruct == InitConstruct /\ [][call_workflow_init]_vars

\* ------------------------------------------------------------------ Workdir
\* path components, and the path of the root Workdir (Workflow.__init__:
\* workflow_root / workflow_dir, absolute or relative to the current directory)
Names == {"a", "b"}

RootPath == <<"w">>

\* the `path` arguments of the calls: relative paths, as the workflow passes
RelPaths ==
  {[abs |-> FALSE, p |-> q] :
     q \in UNION {[1..n -> Names] : n \in 1..(MaxDepth - 1)}}

IsPrefix(p, q) == Len(p) <= Len(q) /\ SubSeq(q, 1, Len(p)) = p

Prefixes(p) == {SubSeq(p, 1, n) : n \in 0..Len(p)}

\* Path.parent
Parent(p) == SubSeq(p, 1, Len(p) - 1)

\* self.root / path: an absolute right operand replaces the left one
Join(root, path) == IF path.abs THEN path.p ELSE root \o path.p

\* Path.exists
path_exists(dirs, files, p) == p \in dirs \cup files

\* shutil.rmtree: fails on a path that is not a directory
rmtree(dirs, files, p) ==
  IF p \in files THEN [ok |-> FALSE, dirs |-> dirs, files |-> files]
  ELSE [ok |-> TRUE, dirs |-> {q \in dirs : ~IsPrefix(p, q)},
        files |-> {q \in files : ~IsPrefix(p, q)}]

\* Path.mkdir(parents=True, exist_ok=exist_ok)
mkdir(dirs, files, p, exist_ok) ==
  IF p \in dirs THEN [ok |-> exist_ok, dirs |-> dirs, files |-> files]
  ELSE IF Prefixes(p) \cap files # {}
  THEN [ok |-> FALSE, dirs |-> dirs, files |-> files]
  ELSE [ok |-> TRUE, dirs |-> dirs \cup Prefixes(p), files |-> files]

\* _registered.wrapper: the test made before create_path is called
registered(registry, path, exist_ok) == path \in registry /\ ~exist_ok

\* Workdir.acquire_dir (the wrapped function)
acquire_dir(dirs, files, root, path, force_empty, exist_ok) ==
  LET full_path == Join(root, path)
      rm == IF (force_empty \/ ~exist_ok) /\ path_exists(dirs, files, full_path)
            THEN rmtree(dirs, files, full_path)
            ELSE [ok |-> TRUE, dirs |-> dirs, files |-> files]
  IN IF ~rm.ok THEN rm
     ELSE mkdir(rm.dirs, rm.files, full_path, ~force_empty /\ exist_ok)

\* Workdir.acquire_file (the wrapped function): parent is the directory
\* that the inner self.acquire_dir(full_path.parent, exist_ok=True) registers
acquire_file(dirs, files, absolute, root, path, exist_ok) ==
  LET full_path == Join(root, path)
      parent == [abs |-> absolute, p |-> Parent(full_path)]
  IN IF ~exist_ok /\ path_exists(dirs, files, full_path)
     THEN [ok |-> FALSE, dirs |-> dirs, files |-> files, keys |-> {}]
     ELSE IF ~path_exists(dirs, files, Parent(full_path))
     THEN LET made == acquire_dir(dirs, files, root, parent, FALSE, TRUE)
          IN [ok |-> made.ok, dirs |-> made.dirs, files |-> made.files,
              keys |-> IF made.ok THEN {parent} ELSE {}]
     ELSE [ok |-> TRUE, dirs |-> dirs, files |-> files, keys |-> {}]

\* a root Workdir on a directory tree that may hold the rests of an earlier run
InitWorkdir ==
  /\ cfg = [delete_outputs |-> FALSE,
            dry_run |-> FALSE, print_commands |-> FALSE, force |-> FALSE,
            threads |-> 1, executor |-> "LocalExecutor", keep_temp |-> FALSE,
            force_delete_temp |-> FALSE]
  /\ jobdef = JobDef(3, "PythonCode", "PythonCode", TRUE, 1)
  /\ exists = {}
  /\ mtime = [f \in Files |-> 0]
  /\ clock = 1
  /\ jobs = <<>>
  /\ job_queue = <<>>
  /\ state = [j \in JobIds |-> "WAITING"]
  /\ exit_code = [j \in JobIds |-> -1]
  /\ pc = "workdir"
  /\ exc = NoExc
  /\ hist = HistInit
  /\ ex = ExIdle
  /\ par = ParIdle
  /\ det = DetIdle
  /\ chk = ChkIdle
  /\ grp = GrpIdle
  /\ wf = WfIdle
  /\ \E absolute \in BOOLEAN :
     \E dirs \in {{<<>>}, {<<>>, RootPath}, {<<>>, RootPath, RootPath \o <<"a">>}} :
     \E files \in {{}, {RootPath \o <<"b">>}} :
       /\ \A f \in files : Parent(f) \in dirs
       /\ wd = [WdIdle EXCEPT !.absolute = absolute, !.dirs = dirs,
                              !.files = files, !.workdirs = {RootPath}]

\* one call root.acquire_dir(path, force_empty=..., exist_ok=...) through
\* the _registered wrapper
call_acquire_dir(root, path, force_empty, exist_ok) ==
  /\ pc = "workdir"
  /\ wd.calls < MaxCalls
  /\ root \in wd.workdirs
  /\ Len(Join(root, path)) <= MaxDepth
  /\ LET full_path == Join(root, path)
         raised == registered(wd.registry, path, exist_ok)
         made == acquire_dir(wd.dirs, wd.files, root, path, force_empty, exist_ok)
         ok == ~raised /\ made.ok
         dirs == IF raised THEN wd.dirs ELSE made.dirs
         files == IF raised THEN wd.files ELSE made.files
     IN wd' = [wd EXCEPT
          !.dirs = dirs,
          !.files = files,
          !.registry = IF ok THEN @ \cup {path} ELSE @,
          !.workdirs = IF ok THEN @ \cup {full_path} ELSE @,
          !.acquired = IF ok THEN @ \cup {full_path} ELSE @,
          !.exclusive = IF ok /\ ~exist_ok THEN @ \cup {full_path} ELSE @,
          !.twice = IF ok /\ ~exist_ok /\ full_path \in wd.exclusive
                    THEN @ \cup {full_path} ELSE @,
          !.calls = @ + 1,
          !.last = [op |-> "acquire_dir", ok |-> ok,
                    again |-> full_path \in wd.acquired, exist_ok |-> exist_ok,
                    changed |-> dirs # wd.dirs \/ files # wd.files]]
  /\ UNCHANGED <<cfg, jobdef, exists, mtime, clock, jobs, job_queue, state,
                 exit_code, pc, exc, hist, ex, par, det, chk, grp, wf>>

\* one call root.acquire_file(path, exist_ok=...) through the wrapper
call_acquire_file(root, path, exist_ok) ==
  /\ pc = "workdir"
  /\ wd.calls < MaxCalls
  /\ root \in wd.workdirs
  /\ Len(Join(root, path)) <= MaxDepth
  /\ LET full_path == Join(root, path)
         raised == registered(wd.registry, path, exist_ok)
         made == acquire_file(wd.dirs, wd.files, wd.absolute, root, path, exist_ok)
         ok == ~raised /\ made.ok
         dirs == IF raised THEN wd.dirs ELSE made.dirs
         files == IF raised THEN wd.files ELSE made.files
     IN wd' = [wd EXCEPT
          !.dirs = dirs,
          !.files = files,
          !.registry = IF raised THEN @
                       ELSE @ \cup made.keys \cup (IF ok THEN {path} ELSE {}),
          !.returned = IF ok THEN @ \cup {full_path} ELSE @,
          !.acquired = IF ok THEN @ \cup {full_path} ELSE @,
          !.exclusive = IF ok /\ ~exist_ok THEN @ \cup {full_path} ELSE @,
          !.twice = IF ok /\ ~exist_ok /\ full_path \in wd.exclusive
                    THEN @ \cup {full_path} ELSE @,
          !.calls = @ + 1,
          !.last = [op |-> "acquire_file", ok |-> ok,
                    again |-> full_path \in wd.acquired, exist_ok |-> exist_ok,
                    changed |-> dirs # wd.dirs \/ files # wd.files]]
  /\ UNCHANGED <<cfg, jobdef, exists, mtime, clock, jobs, job_queue, state,
                 exit_code, pc, exc, hist, ex, par, det, chk, grp, wf>>

\* the caller writes the file whose path acquire_file returned
write_acquired_file(p) ==
  /\ pc = "workdir"
  /\ p \in wd.returned
  /\ Parent(p) \in wd.dirs
  /\ ~path_exists(wd.dirs, wd.files, p)
  /\ wd' = [wd EXCEPT !.files = @ \cup {p}]
  /\ UNCHANGED <<cfg, jobdef, exists, mtime, clock, jobs, job_queue, state,
                 exit_code, pc, exc, hist, ex, par, det, chk, grp, wf>>

NextWorkdir ==
  \/ \E root \in wd.workdirs, path \in RelPaths :
       \E force_empty \in BOOLEAN, exist_ok \in BOOLEAN :
         call_acquire_dir(root, path, force_empty, exist_ok)
  \/ \E root \in wd.workdirs, path \in RelPaths : \E exist_ok \in BOOLEAN :
       call_acquire_file(root, path, exist_ok)
  \/ \E p \in wd.returned : write_acquired_file(p)

SpecWorkdir == InitWorkdir /\ [][NextWorkdir]_vars

\* ----------------------------------------------------------------- FileList
\* the arguments of FileList(...): a str (kind "str") or a list of
\* arguments (kind "list"), nested at most MaxNest deep, at most MaxItems
\* per list
PathNames == {"p", "q"}

Str(x) == [kind |-> "str", path |-> x, items |-> <<>>]

List(xs) == [kind |-> "list", path |-> "", items |-> xs]

Tuples(S, n) == UNION {[1..k -> S] : k \in 0..n}

RECURSIVE RawItems(_)
RawItems(depth) ==
  IF depth = 0 THEN {Str(x) : x \in PathNames}
  ELSE RawItems(depth - 1)
       \cup {List(xs) : xs \in Tuples(RawItems(depth - 1), MaxItems)}

\* FileList.__init__ and FileList._to_paths: a str becomes a Path, any other
\* iterable a FileList of its converted items; _len adds len(item) for the
\* items that are instances of list and 1 for every other item
RECURSIVE to_paths(_)
RECURSIVE file_list(_, _)
to_paths(item) ==
  IF item.kind = "FileList" THEN item
  ELSE IF item.kind = "str"
  THEN [kind |-> "Path", path |-> item.path, items |-> <<>>,
        num_positional |-> 0, len |-> 0]
  ELSE file_list(item.items, <<>>)

file_list(positional, named) ==
  LET raw == positional \o named
      items == [i \in 1..Len(raw) |-> to_paths(raw[i])]
      lens == [i \in 1..Len(raw) |->
                 IF items[i].kind = "list" THEN Len(items[i].items) ELSE 1]
  IN [kind |-> "FileList", path |-> "", items |-> items,
      num_positional |-> Len(positional), len |-> SumSeq(lens)]

\* FileList.__iter__: the paths in order, an item that is not a Path is
\* iterated in turn
RECURSIVE file_list_iter(_)
file_list_iter(fl) ==
  IF Len(fl.items) = 0 THEN <<>>
  ELSE (IF fl.items[1].kind = "Path" THEN <<fl.items[1].path>>
        ELSE file_list_iter(fl.items[1]))
       \o file_list_iter([fl EXCEPT !.items = Tail(@)])

\* FileList.__len__
file_list_len(fl) == fl.len

\* a call FileList(*positional, **named) followed by len() and list()
InitFileList ==
  /\ cfg = [delete_outputs |-> FALSE,
            dry_run |-> FALSE, print_commands |-> FALSE, force |-> FALSE,
            threads |-> 1, executor |-> "LocalExecutor", keep_temp |-> FALSE,
            force_delete_temp |-> FALSE]
  /\ jobdef = JobDef(3, "PythonCode", "PythonCode", TRUE, 1)
  /\ exists = {}
  /\ mtime = [f \in Files |-> 0]
  /\ clock = 1
  /\ jobs = <<>>
  /\ job_queue = <<>>
  /\ state = [j \in JobIds |-> "WAITING"]
  /\ exit_code = [j \in JobIds |-> -1]
  /\ pc = "file_list"
  /\ exc = NoExc
  /\ hist = HistInit
  /\ ex = ExIdle
  /\ par = ParIdle
  /\ det = DetIdle
  /\ \E positional \in Tuples(RawItems(MaxNest - 1), MaxItems) :
     \E named \in Tuples(RawItems(MaxNest), 1) :
       chk = [positional |-> positional, named |-> named, done |-> FALSE,
              len |-> 0, iter |-> <<>>]
  /\ grp = GrpIdle
  /\ wf = WfIdle
  /\ wd = WdIdle

call_file_list ==
  /\ pc = "file_list"
  /\ ~chk.done
  /\ LET fl == file_list(chk.positional, chk.named)
     IN chk' = [chk EXCEPT !.done = TRUE, !.len = file_list_len(fl),
                           !.iter = file_list_iter(fl)]
  /\ pc' = "returned"
  /\ UNCHANGED <<wd, cfg, jobdef, exists, mtime, clock, jobs, job_queue, state,
                 exit_code, exc, hist, ex, par, det, grp, wf>>

SpecFileList == InitFileList /\ [][call_file_list]_vars

\* ================================================================ properties
\* all inputs and all outputs exist and no output is older than an input
IsFresh(ex_set, mt, inputs, outputs) ==
  /\ inputs \subseteq ex_set
  /\ outputs \subseteq ex_set
  /\ \A o \in outputs, i \in inputs : mt[o] >= mt[i]

JobFresh(j) == IsFresh(exists, mtime, jobdef[j].inputs, jobdef[j].outputs)

FlushErrors == {"IncompleteOutputs", "JobFailed", "JobBatchFailed",
                "DetachedJobsFailed"}

\* C1: whenever execute_jobs returns normally every job it dispatched is DONE
\* and up-to-date, and whenever it does not return it raises
\* IncompleteOutputs, JobFailed, JobBatchFailed or DetachedJobsFailed and
\* nothing else, for every dry_run, print_commands and executor.
C1_FlushContract ==
  /\ (pc \in {"run", "finished"} /\ hist.returned > 0) =>
       \A j \in JobIds : hist.dispatched[j] = hist.returned =>
                           (state[j] = "DONE" /\ JobFresh(j))
  /\ (pc = "raised" /\ exc.source = "execute_jobs") => exc.kind \in FlushErrors

\* a step that collects job j without MissingInputs, outside a group
C2_CollectStep ==
  \A j \in JobIds :
    (j \notin hist.collected /\ j \in hist'.collected
       /\ ~grp.collect_group /\ exc'.kind # "MissingInputs") =>
      /\ IF cfg.force \/ ~JobFresh(j)
         THEN job_queue' = Append(job_queue, j)
         ELSE job_queue' = job_queue
      /\ (~cfg.force /\ JobFresh(j)
            /\ jobdef[j].name \notin registry_names(jobs)) =>
           registry_lookup(jobs', jobdef[j].name, jobdef[j].index) = {j}

\* C2: outside a group, a collect_job call that passes the pre-conditions
\* appends the job to the queue iff force is set or the job is not fresh at
\* that time, and leaves the queue alone otherwise; a fresh job collected
\* without force is put into the registry under its name (unless the name is
\* taken); with force every collected job is queued.
C2_QueuedIffForceOrStale == [][C2_CollectStep]_vars

\* a fresh job was collected without force: registered, never queued
C2_Witness ==
  /\ ~cfg.force
  /\ \E j \in hist.collected :
       /\ registry_lookup(jobs, jobdef[j].name, jobdef[j].index) = {j}
       /\ hist.dispatched[j] = 0
       /\ j \notin Range(job_queue)
  /\ \E k \in hist.collected : k \in Range(job_queue)

\* what the sentence about freshness says: min(mtime(outputs)) >=
\* max(mtime(inputs)), or no inputs and at least one output exists
ClaimedFresh(ex_set, mt, inputs, outputs) ==
  /\ inputs \subseteq ex_set
  /\ \/ /\ outputs \subseteq ex_set
        /\ \A o \in outputs, i \in inputs : mt[o] >= mt[i]
     \/ /\ inputs = {}
        /\ outputs \cap ex_set # {}

\* C3 as worded: check_up_to_date accepts iff min(mtime(outputs)) >=
\* max(mtime(inputs)), or there are no inputs and at least one output exists.
C3_FreshAsStated ==
  chk.result # "none" =>
    ((chk.result = "ok") <=> ClaimedFresh(exists, mtime, chk.inputs, chk.outputs))

\* C3: check_up_to_date accepts iff every input exists, every output exists
\* and no output is older than any input; with no inputs every output has
\* to exist, with no outputs the job is fresh.
C3_FreshIffAllOutputsCurrent ==
  chk.result # "none" =>
    ((chk.result = "ok") <=> IsFresh(exists, mtime, chk.inputs, chk.outputs))

\* no inputs, one output exists and another is missing: rejected
C3_Witness ==
  /\ chk.result = "missing outputs"
  /\ chk.inputs = {}
  /\ chk.outputs \cap exists # {}

\* C4: when JobFailed has left execute_jobs, no output path of the failing
\* job exists.
C4_JobFailedOutputsGone ==
  (pc = "raised" /\ exc.kind = "JobFailed" /\ exc.source = "execute_jobs") =>
    \A j \in exc.jobs : jobdef[j].outputs \cap exists = {}

\* the failing action had written its outputs before it raised
C4_Witness ==
  /\ pc = "raised"
  /\ exc.kind = "JobFailed"
  /\ \E j \in exc.jobs : state[j] = "FAILED" /\ hist.wrote[j] = jobdef[j].outputs

\* C5: when a flush has failed because a job's action failed (serial path,
\* thread pool or detached executor), none of that job's outputs exists once
\* the exception has reached the caller of execute_jobs.
C5_FailedJobOutputsGone ==
  (pc = "raised" /\ exc.source = "execute_jobs") =>
    \A j \in JobIds : state[j] = "FAILED" => jobdef[j].outputs \cap exists = {}

\* a step changes a job's state only from WAITING, to DONE or FAILED
C6_StateStep ==
  \A j \in JobIds :
    state'[j] # state[j] =>
      (state[j] = "WAITING" /\ state'[j] \in {"DONE", "FAILED"})

\* C6: every job starts WAITING and its state changes at most once, from
\* WAITING to DONE or to FAILED, whatever collections, flushes (real or dry
\* run), group exits and poll sweeps happen; done() and failed() are never
\* called on a job that is already DONE or FAILED.
C6_JobLifecycle ==
  /\ [][C6_StateStep]_vars
  /\ [](/\ ~hist.late_call
        /\ \A j \in JobIds :
             /\ hist.finished_calls[j] <= 1
             /\ (hist.finished_calls[j] = 0) <=> (state[j] = "WAITING"))

\* the batches of a group were flushed in turn: one job DONE, a later FAILED
C6_Witness ==
  /\ grp.entered = 1
  /\ \E j, k \in JobIds :
       /\ hist.dispatched[j] = 1 /\ state[j] = "DONE"
       /\ hist.dispatched[k] = 2 /\ state[k] = "FAILED"
       /\ hist.finished_calls[j] = 1 /\ hist.finished_calls[k] = 1

\* the thread counts of a set of jobs, summed
RECURSIVE SumThreads(_, _)
SumThreads(S, jd) ==
  IF S = {} THEN 0
  ELSE LET j == CHOOSE k \in S : TRUE IN jd[j].threads + SumThreads(S \ {j}, jd)

\* C7: in the thread-pool path the thread counts of the jobs that are
\* submitted and not yet completed never sum to more than the configured
\* threads.
C7_InFlightWithinThreads ==
  pc = "parallel" => SumThreads(par.inflight, jobdef) <= cfg.threads

\* C8: a dispatched job that is not DONE belongs to the flush that is still
\* under way or has raised: no later flush has started, and the flush has not
\* returned.
C8_FlushBarrier ==
  \A k \in JobIds :
    (hist.dispatched[k] > 0 /\ state[k] # "DONE") =>
      /\ hist.dispatched[k] = hist.flush_no
      /\ hist.returned < hist.flush_no
      /\ pc \notin {"run", "finished"}

\* a job of the second flush has started after the first flush's job
C8_Witness ==
  \E j, k \in JobIds :
    /\ hist.dispatched[k] = 1
    /\ hist.dispatched[j] = 2
    /\ hist.started[j] = 2
    /\ state[k] = "DONE"

\* C9: a tracked job's status file does not exist before the job is
\* submitted, and it does not exist once DONE or FAILED is recorded.
C9_StatusFileLifetime ==
  \A j \in det.tracking :
    det.status_file[j].exists => (det.proc[j] # "none" /\ state[j] = "WAITING")

\* the process wrote its exit code, the poll read it and the file is gone
C9_Witness ==
  \E j \in det.tracking :
    /\ det.proc[j] = "exited"
    /\ state[j] = "FAILED"
    /\ ~det.status_file[j].exists

\* the status file of job j holds an exit code
HoldsCode(j) == det.status_file[j].exists /\ det.status_file[j].content # <<>>

\* the step that polls one job of a sweep, and the step that ends the loop
C10_PollStep ==
  /\ (pc = "det_sweep" /\ det'.i # det.i) =>
       LET j == ex.jobs[det.i]
           hit == state[j] = "WAITING" /\ HoldsCode(j)
       IN /\ \A k \in JobIds : k # j => state'[k] = state[k]
          /\ (state'[j] # state[j]) <=> hit
          /\ hit => /\ state'[j] = IF det.code[j] = 0 THEN "DONE" ELSE "FAILED"
                    /\ exit_code'[j] = det.code[j]
                    /\ det'.num_finished = det.num_finished + 1
          /\ ~hit => det'.num_finished = det.num_finished
  /\ (pc = "det_wait" /\ pc' \notin {"det_wait", "det_sweep"}) =>
       LET failed == {j \in Range(ex.jobs) : state[j] = "FAILED"}
       IN /\ \A j \in Range(ex.jobs) : state[j] # "WAITING"
          /\ IF failed # {}
             THEN pc' = "raised" /\ exc'.kind = "DetachedJobsFailed"
                  /\ exc'.jobs = failed
             ELSE pc' = "returned" /\ exc' = NoExc

\* C10: a poll of a WAITING job changes its state iff its status file holds
\* an exit code, to DONE for 0 and to FAILED with that code otherwise, and
\* counts it; a missing or empty file changes nothing; the count equals the
\* number of finished jobs; the loop ends with DetachedJobsFailed carrying
\* exactly the FAILED jobs iff a job failed.
C10_PollLoop ==
  /\ [][C10_PollStep]_vars
  /\ [](det.num_finished =
          Cardinality({j \in Range(ex.jobs) : state[j] # "WAITING"}))

\* the loop ended with one job done and one failed with a code above 1
C10_Witness ==
  /\ pc = "raised"
  /\ exc.kind = "DetachedJobsFailed"
  /\ \E j, k \in Range(ex.jobs) :
       /\ state[j] = "DONE"
       /\ state[k] = "FAILED"
       /\ exit_code[k] > 1
       /\ exc.jobs = {k}

\* the batches of the open group when its scope exits now: the pending queue
\* is the last batch
ExitBatches ==
  IF Len(job_queue) > 0 THEN Append(grp.batches, job_queue) ELSE grp.batches

GroupJobs(batches) == UNION {Range(batches[b]) : b \in 1..Len(batches)}

\* the first batch's inputs and the last batch's outputs are fresh
GroupFresh(batches) ==
  IsFresh(exists, mtime,
          UNION {jobdef[j].inputs : j \in Range(batches[1])},
          UNION {jobdef[j].outputs : j \in Range(batches[Len(batches)])})

\* the scope of a collecting group ends in this step
GroupExitStep ==
  /\ pc = "run" /\ grp.scope /\ grp.collect_group
  /\ \/ ~grp'.scope
     \/ grp'.running
     \/ pc' = "raised" /\ exc'.source = "grouped_jobs"

C11_SkipStep ==
  /\ (GroupExitStep /\ grp.temp_intermediates /\ Len(ExitBatches) > 0
        /\ GroupFresh(ExitBatches)) =>
       /\ pc' = "run" /\ ~grp'.scope /\ ~grp'.running
       /\ job_queue' = <<>>
       /\ hist'.flush_no = hist.flush_no
       /\ state' = state
       /\ GroupJobs(ExitBatches) \subseteq hist'.skipped
  /\ \A j \in hist.skipped :
       /\ hist'.dispatched[j] = 0
       /\ hist'.started[j] = 0
       /\ j \notin Range(job_queue')

\* C11: when a group with temp_intermediates exits and the first batch's
\* inputs and the last batch's outputs are up to date, no executor is called
\* for any job of the group, then or later, even if a job of the group is
\* stale by itself or an intermediate file is missing.
C11_UpToDateGroupSkipped == [][C11_SkipStep]_vars

\* a skipped group with a job that is stale by itself, while another flush ran
C11_Witness ==
  /\ grp.temp_intermediates
  /\ \E j \in hist.skipped : ~JobFresh(j) /\ hist.dispatched[j] = 0
  /\ hist.flush_no > 0

\* a file of the group that is neither an input of the first batch nor an
\* output of the last batch
IsIntermediate(f, batches) ==
  /\ \E j \in GroupJobs(batches) : f \in jobdef[j].inputs \cup jobdef[j].outputs
  /\ \A j \in Range(batches[1]) : f \notin jobdef[j].inputs
  /\ \A j \in Range(batches[Len(batches)]) : f \notin jobdef[j].outputs

\* the loop over the batches of a group has ended and the scope exits
C12_CleanStep ==
  (pc = "group_batch" /\ pc' = "run" /\ grp.temp_intermediates
     /\ ~cfg.keep_temp) =>
    \A f \in Files : IsIntermediate(f, grp.batches) => f \notin exists'

\* C12: when the batches of a group with temp_intermediates have run and the
\* scope exits, with keep_temp unset, every file among the inputs and outputs
\* of the group's jobs that is neither an input of the first batch nor an
\* output of the last batch is absent.
C12_IntermediatesRemoved == [][C12_CleanStep]_vars

\* job 1 wrote the intermediate x in the first batch, job 2 read it in the
\* second, and x is gone after the group
C12_Witness ==
  /\ pc = "run" /\ ~grp.scope /\ grp.entered = 1 /\ grp.temp_intermediates
  /\ ~cfg.keep_temp
  /\ hist.dispatched[1] = 1 /\ hist.dispatched[2] = 2 /\ hist.returned = 2
  /\ "x" \in hist.wrote[1]
  /\ state[1] = "DONE" /\ state[2] = "DONE"
  /\ "x" \notin exists /\ "y" \in exists

\* this step is a collect_job call for job j, whose (name, index) is taken
DuplicateCall(j) ==
  /\ j \notin hist.collected /\ j \in hist'.collected
  /\ registry_lookup(jobs, jobdef[j].name, jobdef[j].index) # {}

DuplicateRaised(j) ==
  /\ pc' = "raised" /\ exc'.kind = "DuplicateJob" /\ exc'.jobs = {j}
  /\ registry_lookup(jobs', jobdef[j].name, jobdef[j].index)
       = registry_lookup(jobs, jobdef[j].name, jobdef[j].index)
  /\ jobs' = jobs

Registered == {jobs[i].job : i \in 1..Len(jobs)}

RECURSIVE Downwards(_)
Downwards(S) ==
  IF S = {} THEN <<>>
  ELSE LET m == CHOOSE x \in S : \A y \in S : y <= x
       IN <<m>> \o Downwards(S \ {m})

CallEnded == pc \in {"returned", "propagated"}

C14_OutputsAbsent ==
  (cfg.delete_outputs /\ CallEnded) =>
    \A j \in Registered : jobdef[j].outputs \cap exists = {}

C14_NoActionRun ==
  (cfg.delete_outputs /\ CallEnded) =>
    \A j \in JobIds : hist.started[j] = 0 /\ hist.wrote[j] = {}

C14_ReverseOrder ==
  (cfg.delete_outputs /\ CallEnded) => hist.deleted = Downwards(Registered)

\* C14: after a workflow call with delete_outputs has ended, by returning or
\* by raising, every output of every job in the registry is absent, no job
\* action was executed, and the outputs were discarded job by job in the
\* reverse of the order in which the jobs were collected.
C14_DeleteOutputs == C14_OutputsAbsent /\ C14_NoActionRun /\ C14_ReverseOrder

\* the call has returned and no exception was dropped on the way
ReturnedNormally == pc = "returned" /\ hist.stopped = "none"

C16_QueueEmpty == ReturnedNormally => job_queue = <<>>

\* hist.queued: the jobs that collect_job put into the queue outside a
\* collecting group
C16_AllDispatched ==
  ReturnedNormally => \A j \in hist.queued : hist.dispatched[j] > 0

\* post_run follows the final flush, the final flush follows the run body
C16_OrderStep ==
  /\ (pc' = "returned" /\ hist'.stopped = "none" /\ pc # "returned") =>
       pc = "finished"
  /\ (pc' = "finished" /\ pc # "finished") =>
       \/ pc = "check" /\ ex.final
       \/ pc = "run" /\ job_queue = <<>>
  /\ (pc = "finished" \/ (ex.final /\ pc # "run")) =>
       hist'.collected = hist.collected

\* C16: when a workflow call returns normally the pending queue is empty and
\* every job that collect_job queued has been dispatched, those collected
\* after the last explicit execute_jobs by the final flush; the final flush
\* comes after the run body and before post_run.
C16_FinalFlush ==
  /\ []C16_QueueEmpty
  /\ []C16_AllDispatched
  /\ [][C16_OrderStep]_vars

\* an executor is called on a batch in a dry run
C17_DryRunStep ==
  (cfg.dry_run /\ hist'.dispatched # hist.dispatched) =>
    /\ \A j \in JobIds :
         hist'.dispatched[j] # hist.dispatched[j] => state'[j] = "DONE"
    /\ hist'.started = hist.started /\ hist'.wrote = hist.wrote
    /\ exists' = exists /\ mtime' = mtime

\* C17: in a dry run the executor marks every job of the dispatched batch
\* DONE, with and without print_commands, runs no action and creates,
\* modifies or deletes no file.
C17_DryRunMarksDone == [][C17_DryRunStep]_vars

\* a step taken inside the scope of a collecting group
C18_ScopeStep ==
  (pc = "run" /\ grp.scope /\ grp.collect_group /\ ~cfg.force) =>
    /\ \A j \in JobIds :
         (j \notin hist.collected /\ j \in hist'.collected) =>
           job_queue' = Append(job_queue, j)
    /\ (grp'.scope /\ grp'.collect_group /\ pc' = "run"
          /\ grp'.batches # grp.batches) =>
         /\ grp'.batches = Append(grp.batches, job_queue)
         /\ job_queue' = <<>>
    /\ hist'.flush_no = hist.flush_no
    /\ hist'.dispatched = hist.dispatched
    /\ hist'.started = hist.started
    /\ state' = state

\* C18: inside a grouped_jobs scope, force unset, collect_job appends every
\* job to the queue whether it is fresh or not, execute_jobs moves the queue
\* as one batch to the end of the batch list and calls no executor, and no
\* job action runs before the scope exits.
C18_GroupCollects == [][C18_ScopeStep]_vars

\* inside the scope: one batch was moved, and a fresh job sits in the queue
C18_Witness ==
  /\ pc = "run" /\ grp.scope /\ grp.collect_group /\ ~cfg.force
  /\ Len(grp.batches) = 1
  /\ \E j \in Range(job_queue) : JobFresh(j)
  /\ hist.flush_no = 0

\* a collect_job call outside a collecting group for a job with a missing input
C19_MissingStep ==
  \A j \in JobIds :
    (j \notin hist.collected /\ j \in hist'.collected /\ ~grp.collect_group
       /\ \E i \in jobdef[j].inputs : i \notin exists) =>
      /\ pc' = "raised" /\ exc'.kind = "MissingInputs" /\ exc'.jobs = {j}
      /\ job_queue' = job_queue /\ jobs' = jobs
      /\ det' = det /\ state' = state
      /\ exists' = exists /\ mtime' = mtime

\* C19: outside a group, a collect_job call for a job with a missing input
\* raises MissingInputs and changes nothing: the queue, the registry, the
\* tracked jobs, the job states and the files are as before the call.
C19_MissingInputsNoEffect == [][C19_MissingStep]_vars

\* MissingInputs left a queue and a registry that are not empty
C19_Witness ==
  /\ pc = "raised" /\ exc.kind = "MissingInputs" /\ exc.source = "collect_job"
  /\ job_queue # <<>> /\ jobs # <<>>
  /\ \A j \in exc.jobs : j \notin Registered /\ j \notin Range(job_queue)

\* the entry of the resources file for a name, {} if there is none
EntryOf(root, name) ==
  IF name \in DOMAIN root.byname THEN root.byname[name] ELSE EmptyDict

\* C20: a job collected with resources=None gets the entry of the resources
\* file for its name merged over __default__, the entry winning, so its
\* threads are those configured for the name, else those of __default__.
C20_ResourcesByName ==
  (chk.done /\ ~chk.resources.is_dict /\ chk.resources.id = NoneKey) =>
    /\ \A k \in ResKeys :
         /\ k \in DOMAIN chk.result <=>
              k \in DOMAIN EntryOf(chk.root, chk.name) \cup DOMAIN chk.root.default
         /\ k \in DOMAIN EntryOf(chk.root, chk.name) =>
              chk.result[k] = EntryOf(chk.root, chk.name)[k]
         /\ (k \in DOMAIN chk.root.default
               /\ k \notin DOMAIN EntryOf(chk.root, chk.name)) =>
              chk.result[k] = chk.root.default[k]
    /\ chk.threads = IF "threads" \in DOMAIN EntryOf(chk.root, chk.name)
                     THEN EntryOf(chk.root, chk.name)["threads"]
                     ELSE chk.root.default["threads"]

FirstRunWroteAll ==
  \A j \in JobIds :
    wf.first[1].started[j] > 0 => wf.first[1].wrote[j] = jobdef[j].outputs

C21_SecondAcquireFails ==
  (wd.last.again /\ ~wd.last.exist_ok) => (~wd.last.ok /\ ~wd.last.changed)

\* no full path under the root is handed out twice without exist_ok
C21_NoPathTwice == wd.twice = {}

\* C21: across any sequence of acquire_dir and acquire_file calls on a root
\* Workdir and its children each path is handed out at most once: a call
\* without exist_ok for an already acquired path fails before it changes the
\* file system, and no two successful calls without exist_ok refer to the
\* same path under the root.
C21_AcquiredOnce == C21_SecondAcquireFails /\ C21_NoPathTwice

\* the leaf paths of the arguments of FileList(...), in order
RECURSIVE LeafPaths(_)
LeafPaths(raw) ==
  IF Len(raw) = 0 THEN <<>>
  ELSE (IF raw[1].kind = "str" THEN <<raw[1].path>> ELSE LeafPaths(raw[1].items))
       \o LeafPaths(Tail(raw))

\* iterating a file list yields the leaf paths of its arguments, in order
C22_IterYieldsLeaves ==
  (pc = "returned" /\ chk.done) =>
    chk.iter = LeafPaths(chk.positional \o chk.named)

\* C22: for every FileList built from positional and named items, nested
\* lists included, len(file_list) is the number of leaf paths that iterating
\* the file list yields.
C22_LenCountsLeaves ==
  (pc = "returned" /\ chk.done) => chk.len = Len(chk.iter)

\* C23: with touch=true (and delete_outputs unset, keep_temp and
\* force_delete_temp not both set) the workflow can be constructed, and both
\* executors are the TouchExecutor, whose flush runs no action and only
\* updates the mtimes of existing outputs.
C23_TouchConstructs ==
  (pc # "init" /\ chk.args.touch /\ ~chk.args.delete_outputs
     /\ ~(chk.args.keep_temp /\ chk.args.force_delete_temp)) =>
    /\ pc = "constructed"
    /\ cfg.executor = "TouchExecutor"
    /\ chk.local_executor = "TouchExecutor"

\* _wait_for_jobs has been left
LoopEnded == pc \notin {"det_submit", "det_wait", "det_sweep"}

\* C24: once every submitted job is finished or has a status file that holds
\* an exit code, the poll loop ends, and it ends within one further sweep
\* (at most one sweep starts in such a state); the loop is never left while
\* the process of some job has not written its exit code, however long that
\* takes.
C24_PollLoopEnds ==
  /\ [](hist.ready_sweeps <= 1)
  /\ [](LoopEnded => \A j \in Range(ex.jobs) : det.proc[j] = "exited")
  /\ (AllReady(det, state, ex.jobs) /\ pc # "det_submit") ~> LoopEnded

\* the loop ended after a sweep that started when every exit code was written
C24_Witness ==
  /\ LoopEnded
  /\ hist.ready_sweeps = 1
  /\ \A j \in Range(ex.jobs) : state[j] # "WAITING"

\* the batch that the executor call of this step receives (<<>> if none)
CalledBatch ==
  IF pc = "call_executor" THEN normal_jobs
  ELSE IF pc = "call_local_executor" THEN local_jobs
  ELSE <<>>

CalledExecutor == IF pc = "call_executor" THEN cfg.executor ELSE "LocalExecutor"

\* the call of this step is a call of the LocalExecutor that runs jobs
LocalCall ==
  /\ Len(CalledBatch) > 0
  /\ ~cfg.dry_run
  /\ CalledExecutor = "LocalExecutor"

\* ... and one that takes the thread-pool path (_run_parallel)
ParallelCall == LocalCall /\ (cfg.threads > 1 \/ Len(CalledBatch) > 1)

\* the positions of the batch whose job needs more threads than the pool has
TooWide(batch) ==
  {i \in 1..Len(batch) : jobdef[batch[i]].threads > cfg.threads}

\* the statement of C25 as it was made: the batch with the job that needs too
\* many threads is run (its other jobs are executed, the failure is
\* collected), so the call enters the thread pool
C25_AsStated ==
  [][(ParallelCall /\ TooWide(CalledBatch) # {}) => pc' = "parallel"]_vars

C25_Step ==
  (ParallelCall /\ TooWide(CalledBatch) # {}) =>
    LET j == CalledBatch[SetMin(TooWide(CalledBatch), 0)]
    IN /\ pc' = "raised"
       /\ exc' = Raise("JobFailed", "execute_jobs", {j})
       /\ state' = state
       /\ hist'.started = hist.started
       /\ par' = par
       /\ jobdef[j].outputs \cap exists' = {}
       /\ exists' = exists \ jobdef[j].outputs

\* C25: in local parallel mode a job that requests more threads than the
\* configured pool fails the batch before it starts: JobFailed is raised for
\* the first such job in queue order, no job of the batch is executed or
\* changes state, the workflow discards that job's outputs, and the
\* admission loop is not entered, so it cannot wait forever for capacity.
C25_TooWideFailsFast == [][C25_Step]_vars

\* a batch was refused for a job that needs too many threads; another job of
\* the same flush is still waiting and was never started
C25_Witness ==
  /\ pc = "raised"
  /\ exc.kind = "JobFailed"
  /\ \E j \in exc.jobs, k \in JobIds :
       /\ jobdef[j].threads > cfg.threads
       /\ hist.started[j] = 0
       /\ k # j
       /\ hist.dispatched[k] = hist.flush_no
       /\ hist.started[k] = 0
       /\ state[k] = "WAITING"

\* the step that leaves `with ThreadPoolExecutor` and ends _run_parallel
C26_Step ==
  (pc = "parallel" /\ pc' # "parallel") =>
    LET batch == Range(ex.jobs)
        failed == {j \in batch : state[j] = "FAILED"}
    IN /\ \A j \in batch :
            /\ hist.started[j] = hist.flush_no
            /\ j \notin par.inflight
       /\ IF failed # {}
          THEN /\ pc' = "raised"
               /\ exc'.kind = "JobBatchFailed"
               /\ exc'.jobs = failed
               /\ exc'.total = Len(ex.jobs)
          ELSE pc' # "raised" /\ exc' = exc
       /\ exists' = exists

\* C26: in local parallel mode every job of the batch has been executed when
\* the batch ends, whether or not jobs before it failed; JobBatchFailed is
\* raised then, and only then, iff at least one job failed, with exactly the
\* failed jobs and the batch size; what the jobs that succeeded wrote is
\* still in place when the exception has left execute_jobs.
C26_BatchFailureAggregated ==
  /\ [][C26_Step]_vars
  /\ [](exc.kind = "JobBatchFailed" =>
          /\ pc = "raised"
          /\ \A j \in Range(ex.jobs) :
               state[j] = "DONE" => hist.wrote[j] \subseteq exists)

\* two jobs failed, and a job behind them in the queue ran and succeeded; its
\* output is there
C26_Witness ==
  /\ pc = "raised"
  /\ exc.kind = "JobBatchFailed"
  /\ exc.jobs = {1, 2}
  /\ exc.total = 3
  /\ state[3] = "DONE"
  /\ hist.wrote[3] # {}
  /\ hist.wrote[3] \subseteq exists

\* the jobs that hold threads of the pool: submitted, and the callback of
\* their future has not yet given the threads back
HoldingThreads ==
  {j \in Range(ex.jobs) : j \in par.inflight \/ par.cb[j] \in {"pending", "loaded"}}

\* neither the admission loop nor a callback is between its read and its
\* write of available_threads
NoUpdateUnderWay ==
  par.at # "store" /\ \A j \in JobIds : par.cb[j] # "loaded"

\* the batch has drained: every job was submitted and every callback is done
Drained ==
  /\ par.at = "join"
  /\ par.inflight = {}
  /\ \A j \in Range(ex.jobs) : par.cb[j] = "done"

\* C27: the updates of available_threads and of the failure list by the
\* admission loop and by the completion callbacks exclude each other: under
\* every interleaving no update is lost, so between updates
\* available_threads plus the threads of the in-flight jobs is the
\* configured number of threads, available_threads is that number again
\* once the batch has drained, and every failed job is in the failure list.
C27_UpdatesExclusive ==
  pc = "parallel" =>
    /\ NoUpdateUnderWay =>
         par.available_threads + SumThreads(HoldingThreads, jobdef) = cfg.threads
    /\ Drained => par.available_threads = cfg.threads
    /\ \A j \in Range(ex.jobs) :
         (state[j] = "FAILED" /\ par.cb[j] = "done") => j \in Range(par.errors)

\* the serial path runs one job per step, in queue order
C28_SerialStep ==
  (pc = "serial" /\ ex'.i # ex.i) =>
    /\ ex'.i = ex.i + 1
    /\ hist'.started[ex.jobs[ex.i]] = hist.flush_no
    /\ \A k \in JobIds : k # ex.jobs[ex.i] => hist'.started[k] = hist.started[k]

\* C28: the LocalExecutor runs a batch sequentially, one job at a time in
\* queue order, when threads is 1 or the batch has at most one job, and uses
\* the thread pool (with JobBatchFailed aggregation) only otherwise.
C28_SerialOrPool ==
  /\ [][LocalCall =>
          IF cfg.threads = 1 \/ Len(CalledBatch) <= 1
          THEN pc' = "serial" /\ ex'.jobs = CalledBatch /\ ex'.i = 1
          ELSE pc' # "serial"]_vars
  /\ [][C28_SerialStep]_vars
  /\ [](exc.kind = "JobBatchFailed" => (cfg.threads > 1 /\ Len(ex.jobs) > 1))

\* the jobs that the running (or last) flush has dispatched
FlushJobs == {j \in JobIds : hist.flush_no > 0 /\ hist.dispatched[j] = hist.flush_no}

\* the jobs that a step dispatches
Dispatches == {j \in JobIds : hist'.dispatched[j] # hist.dispatched[j]}

\* each job of the queue is handed to one executor, once: the jobs that are
\* not exec_local by the call of executor, the exec_local ones by the call of
\* local_executor, and no other step dispatches a job
C29_RoutingStep ==
  /\ pc = "call_executor" =>
       /\ Dispatches = {j \in Range(job_queue) : ~jobdef[j].exec_local}
       /\ (pc' \in {"serial", "parallel"}) => ex'.executor = cfg.executor
  /\ pc = "call_local_executor" =>
       /\ Dispatches = {j \in Range(job_queue) : jobdef[j].exec_local}
       /\ (pc' \in {"serial", "parallel"}) => ex'.executor = "LocalExecutor"
  /\ pc \notin {"call_executor", "call_local_executor"} => Dispatches = {}
  /\ \A j \in Dispatches : hist.dispatched[j] = 0

\* once an exec_local job of the flush has started, every other job of the
\* flush is in a terminal state, and none has failed
C29_LocalAfterNormal ==
  \A j, k \in FlushJobs :
    (jobdef[j].exec_local /\ hist.started[j] = hist.flush_no
       /\ ~jobdef[k].exec_local) =>
      state[k] = "DONE"

\* C29: in one flush each queued job is dispatched to exactly one executor,
\* exec_local jobs to local_executor and all others to executor; every
\* non-local job of the flush has reached a terminal state before the first
\* exec_local job of that flush starts, and if the normal batch fails no
\* exec_local job of the flush is started.
C29_FlushOrder == [][C29_RoutingStep]_vars /\ []C29_LocalAfterNormal

\* no missing and no stale output reported by _check_outputs
PostAccepts == ~chk.post.raised /\ chk.post.files = {}

\* C30: for every assignment of existence and mtimes to the inputs and the
\* outputs, empty lists included, _check_outputs reports no missing or stale
\* output exactly when check_up_to_date accepts the same inputs and outputs;
\* a missing input makes both raise FileNotFoundError.
C30_SameRule ==
  (chk.result # "none" /\ chk.post.called) =>
    /\ (chk.result = "ok") <=> PostAccepts
    /\ (chk.result = "FileNotFoundError") <=> chk.post.raised

\* both accept an output that is exactly as old as the newest input
C30_Witness ==
  /\ chk.result = "ok"
  /\ chk.post.called
  /\ PostAccepts
  /\ \E i \in chk.inputs, o \in chk.outputs :
       /\ i # o
       /\ mtime[o] = mtime[i]
       /\ \A k \in chk.inputs : mtime[k] <= mtime[i]

\* no job of batch b has been handed to an executor
Untouched(b) == \A j \in Range(grp.batches[b]) : hist.dispatched[j] = 0

\* the first batch of the stale group that no flush has taken up yet
FirstUntouched ==
  SetMin({b \in 1..Len(grp.batches) : Untouched(b)}, Len(grp.batches) + 1)

C31_Step ==
  \* the exit of a stale group: the batches are the queues that the
  \* execute_jobs calls of the scope moved, then the jobs collected after
  \* the last call
  /\ (GroupExitStep /\ grp'.running) =>
       /\ grp'.batches = ExitBatches
       /\ hist'.flush_no = hist.flush_no
       /\ hist'.dispatched = hist.dispatched
  /\ (grp.running /\ grp'.running) => grp'.batches = grp.batches
  \* a flush starts: it takes the first batch not yet flushed, whole, and
  \* every earlier batch has been flushed without an exception
  /\ (grp.running /\ hist'.flush_no # hist.flush_no) =>
       /\ FirstUntouched <= Len(grp.batches)
       /\ job_queue' = grp.batches[FirstUntouched]
       /\ hist.returned = hist.flush_no
       /\ pc # "raised"
       /\ \A b \in 1..(FirstUntouched - 1) :
            \A j \in Range(grp.batches[b]) :
              hist.dispatched[j] > 0 /\ state[j] = "DONE"
  \* a job of the group is handed to an executor only in the flush of its
  \* own batch
  /\ grp.running =>
       \A j \in JobIds :
         hist'.dispatched[j] # hist.dispatched[j] =>
           /\ j \in Range(job_queue)
           /\ \E b \in 1..Len(grp.batches) :
                /\ job_queue = grp.batches[b]
                /\ \A c \in (b + 1)..Len(grp.batches) : Untouched(c)
  \* the loop ends without an exception: every batch has been flushed
  /\ (grp.running /\ ~grp'.running /\ pc' = "run") =>
       \A j \in GroupJobs(grp.batches) :
         hist.dispatched[j] > 0 /\ state[j] = "DONE"

C32_SkipStep ==
  (GroupExitStep /\ grp.temp_intermediates /\ Len(ExitBatches) > 0
     /\ GroupFresh(ExitBatches)) =>
    /\ hist'.dispatched = hist.dispatched
    /\ hist'.started = hist.started
    /\ state' = state
    /\ ~cfg.force_delete_temp => (exists' = exists /\ mtime' = mtime)
    /\ cfg.force_delete_temp =>
         /\ \A f \in Files : IsIntermediate(f, ExitBatches) => f \notin exists'
         /\ \A f \in exists \ exists' : IsIntermediate(f, ExitBatches)
         /\ exists' \subseteq exists

\* C32: when a group with temp_intermediates is found up to date and is
\* skipped, no file is deleted if force_delete_temp is unset; if it is set,
\* the intermediate files of the group are deleted although no job of the
\* group ran.
C32_SkippedGroupCleanup == [][C32_SkipStep]_vars

\* force_delete_temp: an intermediate file that existed is gone after the
\* skip, and no job of the group was ever handed to an executor
C32_Witness ==
  /\ cfg.force_delete_temp
  /\ hist.skipped # {}
  /\ hist.cleaned # {}
  /\ hist.cleaned \cap exists = {}
  /\ \A j \in hist.skipped : hist.dispatched[j] = 0

\* C33: group scopes nest as a stack: between the calls made inside an open
\* grouped_jobs scope (also after an inner scope has exited) the workflow is
\* in the collection mode of the enclosing group, and the exit of the
\* enclosing group does not fail on the engine's own assertion.
C33_ScopesNest ==
  /\ (pc = "run" /\ grp.scope /\ ~(cfg.force /\ ~cfg.delete_outputs))
       => grp.collect_group
  /\ ~(pc = "raised" /\ exc.kind = "AssertionError"
         /\ exc.source = "grouped_jobs" /\ grp.k = 0 /\ grp.entered = 2)

\* inside a grouped_jobs scope of a workflow with force and without
\* delete_outputs
ForcedScope == cfg.force /\ ~cfg.delete_outputs /\ grp.scope

C34_Step ==
  ForcedScope =>
    \* no collection mode, no batch, no gate, no cleanup
    /\ ~grp'.collect_group /\ grp'.batches = <<>> /\ ~grp'.running
    /\ hist'.skipped = hist.skipped /\ hist'.cleaned = hist.cleaned
    \* collect_job queues the job although it may be fresh
    /\ \A j \in JobIds :
         (j \notin hist.collected /\ j \in hist'.collected) =>
           IF jobdef[j].inputs \subseteq exists
           THEN job_queue' = Append(job_queue, j)
           ELSE job_queue' = job_queue /\ exc'.kind = "MissingInputs"
    \* execute_jobs starts the flush of the queue at once ...
    /\ (pc = "run" /\ pc' \notin {"run", "raised"}) =>
         /\ pc' = "call_executor"
         /\ hist'.flush_no = hist.flush_no + 1
         /\ job_queue' = job_queue /\ job_queue # <<>>
    \* ... and a job leaves the queue only at the end of a flush that ran it
    /\ (job_queue # <<>> /\ job_queue' = <<>>) =>
         /\ pc = "check"
         /\ \A j \in Range(job_queue) :
              hist.dispatched[j] = hist.flush_no /\ state[j] = "DONE"
    \* the exit of the scope changes nothing
    /\ ~grp'.scope =>
         /\ exists' = exists /\ mtime' = mtime /\ job_queue' = job_queue
         /\ pc' = pc /\ hist' = hist /\ state' = state

\* C34: with force set and delete_outputs unset a grouped_jobs scope has no
\* effect on scheduling: the jobs collected inside it are queued as ungrouped
\* jobs are, every execute_jobs inside the scope flushes the queue at once,
\* no freshness gate of the group is evaluated, and the exit of the scope
\* deletes no file.
C34_ForcedGroupIsUngrouped == [][C34_Step]_vars

\* execute_jobs inside the scope has started the flush of two jobs, one of
\* them up to date
C34_Witness ==
  /\ ForcedScope /\ ~cfg.dry_run
  /\ pc = "call_executor"
  /\ Len(job_queue) = 2
  /\ \E j \in Range(job_queue) : JobFresh(j) /\ jobdef[j].outputs # {}
  /\ \A j \in Range(job_queue) : hist.dispatched[j] = 0

\* a real run with force
ForcedRun == cfg.force /\ ~cfg.dry_run

\* the step in which the action of a job starts: what is left of the job's
\* outputs afterwards is what the action itself wrote
C35_LocalStep ==
  ForcedRun =>
    \A j \in JobIds :
      hist'.started[j] # hist.started[j] =>
        (jobdef[j].outputs \cap exists') \subseteq hist'.wrote[j]

\* the call of the DetachedExecutor: the jobs are submitted, and none of
\* their outputs is left for the submitted scripts to find
C35_DetachedStep ==
  (ForcedRun /\ pc = "call_executor" /\ Len(normal_jobs) > 0
     /\ cfg.executor = "DetachedExecutor") =>
    /\ pc' # "raised"
    /\ \A j \in Range(normal_jobs) : jobdef[j].outputs \cap exists' = {}

\* C35: with force set in a real run the existing outputs of every
\* dispatched job are deleted before the action of that job starts, for the
\* jobs run by the local executor and for the jobs submitted through the
\* detached executor alike.
C35_ForceDeletesOutputs == [][C35_LocalStep /\ C35_DetachedStep]_vars

\* the jobs run by the local executor alone
C35_LocalHalf == [][C35_LocalStep]_vars

\* the workflow's call of the DetachedExecutor in a real run
DetachedCall ==
  /\ pc = "call_executor"
  /\ ~cfg.dry_run
  /\ Len(normal_jobs) > 0
  /\ cfg.executor = "DetachedExecutor"

\* C36: a flush of non-local jobs through the DetachedExecutor in a real run,
\* made with the call the workflow issues to every executor, hands the whole
\* batch to the submitter, once, and polls afterwards: the call does not
\* raise before the submitter is reached.
C36_DetachedFlushSubmits ==
  [][DetachedCall =>
       /\ pc' = "det_submit"
       /\ ex'.jobs = normal_jobs
       /\ exc' = exc]_vars

\* _run_jobs called without `force`: the polling loop runs after the one
\* call of the submitter
DirectCallSubmitsOnce ==
  /\ pc \in {"det_wait", "det_sweep"} => det.submits = 1
  /\ pc = "det_submit" => (det.submits = 0 /\ det.num_finished = 0)

\* a collect_job call ends in DuplicateJob in this step
RaisesDuplicate == exc.kind # "DuplicateJob" /\ exc'.kind = "DuplicateJob"

\* C37: a collect_job call that raises DuplicateJob leaves the pending queue
\* unchanged; the rejected job is neither in the registry nor in the queue,
\* and every job that a flush dispatches is held in the registry.
C37_DuplicateNotQueued ==
  /\ [][RaisesDuplicate =>
          /\ job_queue' = job_queue
          /\ \A j \in exc'.jobs : j \notin Registered' /\ j \notin Range(job_queue')]_vars
  /\ [](\A j \in JobIds : hist.dispatched[j] > 0 => j \in Registered)

\* every job that a flush has dispatched is held in the registry
DispatchedAreRegistered ==
  \A j \in JobIds : hist.dispatched[j] > 0 => j \in Registered

\* the flush of a batch of the group fails in this step
BatchFlushFails == grp.running /\ grp.k >= 1 /\ pc # "raised" /\ pc' = "raised"

\* the exception leaves the grouped_jobs scope in this step
LeavesScope == pc = "raised" /\ grp.scope /\ grp' # grp

\* the intermediate files of the group that this step deletes
DeletedIntermediates ==
  {f \in exists \ exists' : IsIntermediate(f, grp.batches)}

\* no job of a batch behind the failed one is dispatched, and the scope ends
\* in ungrouped mode with an empty batch list
C38_StopStep ==
  /\ BatchFlushFails =>
       \A b \in grp.k..Len(grp.batches) :
         \A j \in Range(grp.batches[b]) : hist'.dispatched[j] = 0
  /\ pc = "raised" => (hist'.dispatched = hist.dispatched /\ pc' = "raised")
  /\ LeavesScope =>
       /\ ~grp'.scope /\ ~grp'.collect_group /\ ~grp'.running
       /\ grp'.batches = <<>>
       /\ exists' = exists

\* the statement of C38 as it was made: no intermediate file of the group is
\* deleted when the flush of a batch fails
C38_AsStated ==
  [][C38_StopStep /\ (BatchFlushFails => DeletedIntermediates = {})]_vars

\* C38: if the flush of batch k of a group fails, no job of a later batch of
\* the group is dispatched, no intermediate file of the group is deleted
\* except outputs of the failing job, which the JobFailed handler of the
\* flush discards, and after the exception has left the grouped_jobs scope
\* the workflow is in ungrouped mode with an empty batch list.
C38_FailedBatchStopsGroup ==
  [][/\ C38_StopStep
     /\ BatchFlushFails =>
          \/ DeletedIntermediates = {}
          \/ /\ exc'.kind = "JobFailed"
             /\ DeletedIntermediates \subseteq
                  UNION {jobdef[j].outputs : j \in exc'.jobs}]_vars

\* job 1 failed in the first batch after writing x, x was discarded, job 2 of
\* the next batch was never dispatched, and the scope has been left
C38_Witness ==
  /\ pc = "raised" /\ exc.kind = "JobFailed" /\ exc.jobs = {1}
  /\ grp.entered = 1 /\ ~grp.scope /\ ~grp.collect_group /\ grp.batches = <<>>
  /\ hist.queued = {}
  /\ hist.wrote[1] = {"x"} /\ "x" \notin exists
  /\ 2 \in hist.collected /\ hist.dispatched[2] = 0

\* an input of a job of the first batch or an output of a job of the last
InterfaceFile(f, batches) ==
  \/ \E j \in Range(batches[1]) : f \in jobdef[j].inputs
  \/ \E j \in Range(batches[Len(batches)]) : f \in jobdef[j].outputs

\* the cleanup of the group's intermediates runs in this step: at the end of
\* the batch loop, or at the exit of an up-to-date group
CleanupStep ==
  \/ pc = "group_batch" /\ grp.k > Len(grp.batches)
  \/ GroupExitStep /\ pc' = "run" /\ ~grp'.running

CleanupBatches == IF pc = "group_batch" THEN grp.batches ELSE ExitBatches

C39_Step ==
  (CleanupStep /\ Len(CleanupBatches) > 0) =>
    /\ \A f \in exists \ exists' : ~InterfaceFile(f, CleanupBatches)
    /\ cfg.keep_temp => exists' = exists

\* C39: the cleanup of a group's intermediates unlinks no file that is an
\* input of a first-batch job or an output of a last-batch job, also when
\* the same path is an input or an output of a job of a middle batch, and
\* with keep_temp set it deletes nothing.
C39_InterfaceFilesKept == [][C39_Step]_vars

\* three batches: a file that the middle batch writes is also an input of
\* the first batch; it is still there, while an intermediate file was removed
C39_Witness ==
  /\ pc = "run" /\ ~grp.scope
  /\ Len(chk.batches) = 3
  /\ hist.cleaned # {}
  /\ \E f \in exists :
       /\ f \in jobdef[chk.batches[1][1]].inputs
       /\ f \in jobdef[chk.batches[2][1]].outputs

\* the jobs of the batch that the admission loop has not submitted yet
NotAdmitted == Range(par.job_queue) \ par.submitted_jobs

\* every action that was started has terminated and every callback has
\* ended, jobs are still queued, and none of them fits what is left in
\* available_threads: the admission loop repeats its pass for ever
PoolRunStuck ==
  /\ pc = "parallel"
  /\ par.at = "for"
  /\ par.inflight = {}
  /\ \A j \in Range(ex.jobs) : par.cb[j] \notin {"pending", "loaded"}
  /\ NotAdmitted # {}
  /\ \A j \in NotAdmitted : jobdef[j].threads > par.available_threads

\* _run_parallel returns without raising in this step
PoolRunReturns == pc = "parallel" /\ pc' \notin {"parallel", "raised"}

\* C40: the local parallel run ends once the action of every submitted job
\* has terminated, whatever its outcome: the threads of every completed job
\* are returned, so the run never waits for threads that no running job
\* holds, and no job of the batch is WAITING when the run returns without
\* raising.
C40_PoolRunCompletes ==
  /\ [][PoolRunReturns =>
          \A j \in Range(ex.jobs) : state'[j] # "WAITING"]_vars
  /\ [](~PoolRunStuck)

\* the two halves, one by one
PoolRunLeavesNoneWaiting ==
  [][PoolRunReturns => \A j \in Range(ex.jobs) : state'[j] # "WAITING"]_vars

PoolRunNeverStuck == ~PoolRunStuck

====
